---- MODULE Spec2Model ----
(***************************************************************************)
(* Decomposition of a periodic framework structure into SBU and linker     *)
(* fragments: molSimplify/Informatics/MOF/fragment_MOFs_for_pormake.py.    *)
(* The structure is a bond graph over atom indices with element classes    *)
(* (M = metal, H = hydrogen, C = any other element) and a one-dimensional  *)
(* lattice coordinate per atom in a cell of CellLen lattice steps.         *)
(* The last part is functionalize_MOF of MOF_functionalizer.py, which      *)
(* replaces hydrogens on the linkers of such a structure.                  *)
(***************************************************************************)
EXTENDS Integers, Sequences, FiniteSets, TLC

\* ---------------------------------------------------------------- bounds
NAtoms == 6          \* atoms of a structure with branches and rings
LongAtoms == 8       \* atoms of a structure that is one chain
MaxRings == 2        \* independent cycles of the bond graph
CellLen == 4         \* lattice steps in the unit cell
MaxStride == 1       \* lattice steps between atoms next to each other in the list
StepLen == 3         \* length units in a lattice step
MaxRingAtoms == 4    \* atoms of a ring that hangs on a linker
MaxTailAtoms == 2    \* atoms of the side chain on such a ring
MaxLimit == 2        \* largest functionalization_limit
MaxPath == 2         \* largest path_between_functionalizations

\* ------------------------------------------------------ program constants
InitMaxMin == 0
InitMinMax == 100
NoPathMin == 1000
NoPathMax == 0
ShortLimit == 2
LongLimit == 3
MainChainLimit == 2
MaxCifAtoms == 2000
RodThreshold == 4
CapNum == 3
CapDen == 4
MinLinkerAtoms == 3

VARIABLES
    natoms,                  \* number of atoms of the structure
    sym,                     \* element class of every atom (allatomtypes)
    graph,                   \* the bonds: a set of two-element sets of atoms
    pos,                     \* lattice coordinate of every atom
    overlap,                 \* two atoms of the cif lie on top of each other
    failed_log,              \* FailedStructures.log
    xyz_written,             \* the xyz file of the whole structure exists
    pc,                      \* position in make_MOF_fragments
    removelist, SBUlist,
    log,                     \* logs/<name>.log
    allatoms, linkers,
    linker_list, linker_subgraphlist,
    connections_list, connections_subgraphlist,
    anc_atoms,
    initial_SBU_list,
    templist, ii,
    max_min_linker_length, min_max_linker_length, long_ligands,
    ambiguous_txt, ligand_txt, short_ligands_txt, uneven_txt, short_txt,
    SBU_list, SBU_subgraphlist,
    return_code,
    subcycle_list, main_paths, current_longest,
    bk,                      \* the fragment breakdown_MOF works on
    all_SBU_atoms,
    sbu_files, linker_files, \* the fragment files written so far
    scan,                    \* what each classifier iteration saw and decided
    calls,                   \* how often each collaborator was invoked
    fpc,                     \* position in functionalize_MOF
    functionalization_limit, path_between_functionalizations,
    atom_i,                  \* the atom i of the loop over the atoms
    checkedlist, delete_list, functionalized_atoms,
    functionalization_counter, functionalized,
    linker_to_analyze,
    applied                  \* functionalizations made on linker_to_analyze

structure == <<natoms, sym, graph, pos, overlap>>
precheck == <<failed_log, xyz_written>>

Atoms == 0 .. (natoms - 1)
seeder == <<removelist, SBUlist, log>>
lcvars == <<allatoms, linkers, linker_list, linker_subgraphlist,
            connections_list, connections_subgraphlist, anc_atoms>>
clsvars == <<initial_SBU_list, templist, ii, max_min_linker_length,
             min_max_linker_length, long_ligands>>
audit == <<ambiguous_txt, ligand_txt, short_ligands_txt, uneven_txt, short_txt>>
sbuvars == <<SBU_list, SBU_subgraphlist>>
bdvars == <<subcycle_list, main_paths, current_longest, bk, all_SBU_atoms>>
files == <<sbu_files, linker_files>>
funvars == <<fpc, functionalization_limit, path_between_functionalizations, atom_i,
             checkedlist, delete_list, functionalized_atoms,
             functionalization_counter, functionalized, linker_to_analyze, applied>>
fragvars == <<precheck, pc, seeder, lcvars, clsvars, audit, sbuvars, bdvars,
              return_code, files, scan, calls>>
vars == <<structure, fragvars, funvars>>

\* ------------------------------------------------------- generic helpers
Min(S) == CHOOSE x \in S : \A y \in S : x <= y
Max(S) == CHOOSE x \in S : \A y \in S : x >= y

RECURSIVE AsList(_)
AsList(S) == IF S = {} THEN <<>> ELSE <<Min(S)>> \o AsList(S \ {Min(S)})

Range(s) == {s[k] : k \in 1 .. Len(s)}

RECURSIVE AsListOfLists(_)
\* a set of atom sets as a list of atom lists, ordered by their atoms
AsListOfLists(SS) ==
    IF SS = {} THEN <<>>
    ELSE LET first == CHOOSE c \in SS :
                         \A d \in SS : c = d \/ Min((c \ d) \cup (d \ c)) \in c
         IN <<AsList(first)>> \o AsListOfLists(SS \ {first})
\* a pop that takes the last element whatever the index
PopLast(s, i) == SubSeq(s, 1, Len(s) - 1)
Pop(s, i) == SubSeq(s, 1, i - 1) \o SubSeq(s, i + 1, Len(s))
Reverse(s) == [k \in 1 .. Len(s) |-> s[Len(s) + 1 - k]]
\* position (0-based, as in the source) of atom a in the atom list s
IndexOf(s, a) == (CHOOSE k \in 1 .. Len(s) : s[k] = a) - 1

\* ------------------------------------------------------ mol3D / atom3D
ismetal(a) == sym[a] = "M"
findMetal == {a \in Atoms : ismetal(a)}
getBondedAtoms(a) == {b \in Atoms : {a, b} \in graph}
getBondedAtomsSmart(a) == getBondedAtoms(a)

\* adj_matrix[np.ix_(l, l)]: the bonds among the atoms of list l, in the
\* local (0-based) indices of l
slice_mat(l) ==
    {{p[1] - 1, p[2] - 1} :
        p \in {q \in (1 .. Len(l)) \X (1 .. Len(l)) :
                  q[1] < q[2] /\ {l[q[1]], l[q[2]]} \in graph}}

\* ------------------------------------------------- PBC_functions contracts
RECURSIVE Reach(_, _)
\* atoms reachable from the set S without leaving the set allowed
Reach(S, allowed) ==
    LET nxt == S \cup {b \in allowed : \E a \in S : {a, b} \in graph}
    IN IF nxt = S THEN S ELSE Reach(nxt, allowed)

\* get_closed_subgraph: the connected components of the seed atoms, never
\* crossing a barrier atom, each with its induced subgraph
get_closed_subgraph(seed, barrier, rev) ==
    LET comps == {Reach({a}, Atoms \ barrier) : a \in seed \ barrier}
        firsts == AsList({Min(c) : c \in comps})
        ordered == [k \in 1 .. Len(firsts) |->
                      AsList(CHOOSE c \in comps : Min(c) = firsts[k])]
        lst == IF rev THEN Reverse(ordered) ELSE ordered
    IN <<lst, [k \in 1 .. Len(lst) |-> slice_mat(lst[k])]>>

RECURSIVE Dist(_, _, _, _, _)
\* number of bonds on a shortest path from a to b in the subgraph sub
Dist(sub, front, seen, b, d) ==
    IF b \in front THEN d
    ELSE LET nxt == {j \in UNION sub : j \notin seen /\ \E i \in front : {i, j} \in sub}
         IN IF nxt = {} THEN NoPathMin ELSE Dist(sub, nxt, seen \cup nxt, b, d + 1)

\* linker_length: shortest and longest anchor-to-anchor distance
linker_length(sub, anchors) ==
    LET ds == {Dist(sub, {p[1]}, {p[1]}, p[2], 0) :
                 p \in {q \in anchors \X anchors : q[1] < q[2]}}
    IN IF ds = {} THEN <<NoPathMin, NoPathMax>> ELSE <<Min(ds), Max(ds)>>

\* compute_image_flag: the lattice shift of the bond from coordinate p to q
compute_image_flag(p, q) ==
    IF 2 * (q - p) > CellLen THEN -1
    ELSE IF 2 * (q - p) < -CellLen THEN 1 ELSE 0

RECURSIVE ld_walk(_, _, _)
ld_walk(coords, sub, off) ==
    LET done == DOMAIN off
        new == {j \in UNION sub : j \notin done /\ \E i \in done : {i, j} \in sub}
        par(j) == Min({i \in done : {i, j} \in sub})
    IN IF new = {} THEN off
       ELSE ld_walk(coords, sub,
              off @@ [j \in new |->
                        off[par(j)] +
                        compute_image_flag(coords[par(j) + 1], coords[j + 1])])

\* ligand_detect: the periodic-image offset of every atom, walking the
\* subgraph from an anchor; np.unique counts the distinct offsets
ligand_detect(coords, sub, anchorlist) ==
    LET start == Min(anchorlist)
        off == ld_walk(coords, sub, [j \in {start} |-> 0])
    IN {off[j] : j \in DOMAIN off}

\* include_extra_shells: one pass absorbs the bonded neighbours of every
\* atom of every SBU fragment
include_extra_shells(lst) ==
    LET SBUs == [k \in 1 .. Len(lst) |->
                   AsList(Range(lst[k]) \cup
                          UNION {getBondedAtomsSmart(a) : a \in Range(lst[k])})]
    IN <<SBUs, [k \in 1 .. Len(SBUs) |-> slice_mat(SBUs[k])]>>

\* ------------------------------------------------------------- networkx
Nodes(g) == UNION g

RECURSIVE ReachE(_, _)
\* nodes reachable from S along the edges of g
ReachE(g, S) ==
    LET nxt == S \cup {b \in Nodes(g) : \E x \in S : {x, b} \in g}
    IN IF nxt = S THEN S ELSE ReachE(g, nxt)

\* a simple cycle, as its edge set: connected, every node on two edges
IsCycle(c) ==
    /\ c # {}
    /\ \A n \in Nodes(c) : Cardinality({e \in c : n \in e}) = 2
    /\ ReachE(c, {Min(Nodes(c))}) = Nodes(c)

\* the edges lying in an odd number of the cycles of B (their GF(2) sum)
OddEdges(B) == {e \in UNION B : Cardinality({c \in B : e \in c}) % 2 = 1}

RECURSIVE Weight(_)
Weight(B) == IF B = {} THEN 0
             ELSE LET c == CHOOSE x \in B : TRUE
                  IN Cardinality(c) + Weight(B \ {c})

\* nx.minimum_cycle_basis(G) for the graph with nodes V and edges g: every
\* cycle basis of least total length is a possible result; a cycle is
\* returned as its node set
minimum_cycle_bases(V, g) ==
    LET cycles == {c \in SUBSET g : IsCycle(c)}
        ncomp == Cardinality({ReachE(g, {v}) : v \in V})
        nu == Cardinality(g) - Cardinality(V) + ncomp
        bases == {B \in SUBSET cycles :
                     /\ Cardinality(B) = nu
                     /\ \A S \in SUBSET B : S # {} => OddEdges(S) # {}}
        least == {B \in bases : \A B2 \in bases : Weight(B) <= Weight(B2)}
    IN {{Nodes(c) : c \in B} : B \in least}

\* nx.shortest_path(G, a, b): any shortest path may be the one returned; a
\* path is given as its node set
shortest_paths(sub, a, b) ==
    LET da(v) == Dist(sub, {a}, {a}, v, 0)
        D == da(b)
        cand == {v \in Nodes(sub) \cup {a} : da(v) + Dist(sub, {v}, {v}, b, 0) = D}
    IN {P \in SUBSET cand :
           /\ Cardinality(P) = D + 1
           /\ a \in P /\ b \in P
           /\ \A k \in 0 .. (D - 1) :
                 \E u, v \in P : da(u) = k /\ da(v) = k + 1 /\ {u, v} \in sub}

\* ------------------------------------------------------------ the input
\* bonds join neighbours in the atom list and its two ends; in a structure
\* of NAtoms atoms also the atoms next but one
CandidateBonds(n) ==
    {{p[1], p[2]} :
        p \in {q \in (0 .. (n - 1)) \X (0 .. (n - 1)) :
                  /\ q[1] < q[2]
                  /\ \/ q[2] - q[1] = 1
                     \/ (q[1] = 0 /\ q[2] = n - 1)
                     \/ (n = NAtoms /\ q[2] - q[1] = 2)}}
MetalChoices(n) == {{0}, {0, n - 1}, {0, 3}}

\* a linker of LongLimit bonds between the metals 0 and ChainEnd, a ring of r
\* atoms hanging on its atom 2, and a side chain of t atoms on a ring atom;
\* with twin, the side chain and one more atom sit on the two ring atoms next
\* to atom 2
ChainEnd == LongLimit + 2
PendantBonds(r, t, twin) ==
    LET first == ChainEnd + 1
        last == ChainEnd + r - 1
    IN {{k, k + 1} : k \in 0 .. (ChainEnd - 1)}
       \cup {{2, first}, {2, last}}
       \cup {{k, k + 1} : k \in first .. (last - 1)}
       \cup {{IF twin THEN first ELSE first + 1, last + 1}}
       \cup {{k, k + 1} : k \in (last + 1) .. (last + t - 1)}
       \cup (IF twin THEN {{last, last + t + 1}} ELSE {})
\* the ring of three atoms with its side atom bonded to both ring atoms
\* beside atom 2: a second ring, fused to the first and off the linker
FusedBonds == PendantBonds(3, 1, FALSE) \cup {{ChainEnd + 1, ChainEnd + 3}}
PendantRings ==
    {PendantBonds(r, t, FALSE) : r \in 3 .. MaxRingAtoms, t \in 1 .. MaxTailAtoms}
    \cup {PendantBonds(r, 1, TRUE) : r \in 3 .. MaxRingAtoms}
    \cup {FusedBonds}
HydrogenCandidates(n) == {2, n - 2}
Layouts(n) == {[a \in 0 .. (n - 1) |-> (a * s) % CellLen] : s \in 0 .. MaxStride}

RECURSIVE ReachIn(_, _)
ReachIn(g, S) ==
    LET nxt == S \cup {b \in Nodes(g) : \E x \in S : {x, b} \in g}
    IN IF nxt = S THEN S ELSE ReachIn(g, nxt)

\* the atoms of the structure, by connected component
Components(g, n) == {ReachIn(g, {a}) : a \in 0 .. (n - 1)}

\* make_MOF_fragments has not begun
FragIdle ==
    /\ failed_log = <<>>
    /\ xyz_written = FALSE
    /\ pc = "read"
    /\ removelist = {} /\ SBUlist = {} /\ log = <<>>
    /\ allatoms = {} /\ linkers = {}
    /\ linker_list = <<>> /\ linker_subgraphlist = <<>>
    /\ connections_list = <<>> /\ connections_subgraphlist = <<>>
    /\ anc_atoms = {}
    /\ initial_SBU_list = <<>> /\ templist = <<>> /\ ii = 0
    /\ max_min_linker_length = InitMaxMin
    /\ min_max_linker_length = InitMinMax
    /\ long_ligands = FALSE
    /\ ambiguous_txt = <<>> /\ ligand_txt = <<>> /\ short_ligands_txt = <<>>
    /\ uneven_txt = <<>> /\ short_txt = <<>>
    /\ SBU_list = <<>> /\ SBU_subgraphlist = <<>>
    /\ return_code = "running"
    /\ subcycle_list = <<>> /\ main_paths = {} /\ current_longest = 0
    /\ bk = 0 /\ all_SBU_atoms = {}
    /\ sbu_files = <<>> /\ linker_files = <<>>
    /\ scan = <<>>
    /\ calls = [ligand_detect |-> 0, include_extra_shells |-> 0,
                breakdown_MOF |-> 0]

\* functionalize_MOF is not running
FunIdle ==
    /\ fpc = "off"
    /\ functionalization_limit = 0 /\ path_between_functionalizations = 0
    /\ atom_i = 0
    /\ checkedlist = {} /\ delete_list = <<>> /\ functionalized_atoms = <<>>
    /\ functionalization_counter = 0 /\ functionalized = FALSE
    /\ linker_to_analyze = <<>>
    /\ applied = 0

Init ==
    /\ \/ /\ \/ /\ natoms \in {NAtoms, LongAtoms}
                /\ graph \in SUBSET CandidateBonds(natoms)
                /\ Cardinality(graph) + Cardinality(Components(graph, natoms))
                      <= natoms + MaxRings
             \/ /\ graph \in PendantRings
                /\ natoms = Max(UNION graph) + 1
          /\ \E ms \in IF graph \in PendantRings THEN {{0, ChainEnd}}
                        ELSE MetalChoices(natoms) \cup {{}},
                hs \in SUBSET HydrogenCandidates(natoms) :
                /\ hs \cap ms = {}
                /\ \A h \in hs : Cardinality({e \in graph : h \in e}) = 1
                   \* the structures make_MOF_fragments turns down have
                   \* LongAtoms atoms
                /\ \/ natoms = LongAtoms
                   \/ /\ ms # {}
                      /\ \A c \in Components(graph, natoms) : c \cap ms # {}
                /\ sym = [a \in 0 .. (natoms - 1) |->
                            IF a \in ms THEN "M" ELSE IF a \in hs THEN "H" ELSE "C"]
          /\ pos \in Layouts(natoms)
          /\ overlap \in (IF natoms = LongAtoms THEN BOOLEAN ELSE {FALSE})
          \* a cif with one atom more than make_MOF_fragments takes
       \/ /\ natoms = MaxCifAtoms + 1
          /\ graph = {}
          /\ sym = [a \in 0 .. (natoms - 1) |-> IF a = 0 THEN "M" ELSE "C"]
          /\ pos = [a \in 0 .. (natoms - 1) |-> 0]
          /\ overlap = FALSE
    /\ FragIdle
    /\ FunIdle

\* ------------------------------------------------- make_MOF_fragments
\* lines 537-555: the cif is read and its adjacency matrix built; a cif that
\* is too large or has overlapping atoms ends the run with one failure record
read_cif ==
    /\ pc = "read"
    /\ IF natoms > MaxCifAtoms
       THEN /\ failed_log' = Append(failed_log, "large primitive cell")
            /\ return_code' = "(None, None)" /\ pc' = "done"
            /\ UNCHANGED xyz_written
       ELSE IF overlap
       THEN /\ failed_log' = Append(failed_log, "atomic overlap")
            /\ return_code' = "(None, None)" /\ pc' = "done"
            /\ UNCHANGED xyz_written
       ELSE /\ xyz_written' = TRUE
            /\ pc' = "start"
            /\ UNCHANGED <<failed_log, return_code>>
    /\ UNCHANGED <<structure, seeder, lcvars, clsvars, audit, sbuvars, bdvars,
                   files, scan, calls>>
    /\ UNCHANGED funvars

\* a structure in which every component counts as holding a metal
no_solvent(comps, metal_list) == FALSE

\* lines 572-574: a connected component without metal atom
solvent_component(comps, metal_list) ==
    \E comp \in comps : comp \cap metal_list = {}

\* lines 564-581: a structure without metal, or with a connected component
\* without metal, ends the run with one failure record; an interpenetrated
\* structure is noted in the log
check_components ==
    /\ pc = "start"
    /\ LET comps == Components(graph, natoms)
           n_components == Cardinality(comps)
           metal_list == findMetal
       IN IF ~ (Cardinality(metal_list) > 0)
          THEN /\ failed_log' = Append(failed_log, "no metal found")
               /\ return_code' = "(None, None)" /\ pc' = "done"
               /\ UNCHANGED log
          ELSE IF solvent_component(comps, metal_list)
          THEN /\ failed_log' = Append(failed_log, "solvent molecules")
               /\ return_code' = "(None, None)" /\ pc' = "done"
               /\ UNCHANGED log
          ELSE /\ log' = IF n_components > 1 THEN Append(log, <<"interpenetrated">>)
                         ELSE log
               /\ pc' = "seed"
               /\ UNCHANGED <<failed_log, return_code>>
    /\ UNCHANGED <<structure, xyz_written, removelist, SBUlist, lcvars, clsvars,
                   audit, sbuvars, bdvars, files, scan, calls>>
    /\ UNCHANGED funvars

\* prepare_initial_SBU
prepare_initial_SBU ==
    /\ pc = "seed"
    /\ LET metals == findMetal
           shell == metals \cup UNION {getBondedAtomsSmart(m) : m \in metals}
           only_metal == {a \in shell :
                            \A v \in getBondedAtomsSmart(a) :
                                ismetal(v) \/ sym[v] = "H"}
           hydrogens == {v \in Atoms :
                            /\ sym[v] = "H"
                            /\ \E a \in shell : v \in getBondedAtomsSmart(a)}
           ms == AsList(metals)
       IN /\ SBUlist' = shell
          /\ removelist' = metals \cup only_metal \cup hydrogens
          /\ log' = log \o
                [k \in 1 .. Len(ms) |->
                   <<"cn", ms[k], Cardinality(getBondedAtomsSmart(ms[k])),
                     {sym[b] : b \in getBondedAtomsSmart(ms[k])}>>]
    /\ pc' = "lc"
    /\ UNCHANGED <<structure, precheck, lcvars, clsvars, audit, sbuvars, bdvars, return_code,
                   files, scan, calls>>
    /\ UNCHANGED funvars

\* identify_lc_atoms; the extractor's component order is either direction
identify_lc_atoms ==
    /\ pc = "lc"
    /\ \E rev \in BOOLEAN :
          LET all == Atoms
              lk == all \ removelist
              cs == get_closed_subgraph(lk, removelist, rev)
          IN /\ allatoms' = all
             /\ linkers' = lk
             /\ linker_list' = cs[1]
             /\ linker_subgraphlist' = cs[2]
             /\ connections_list' = cs[1]
             /\ connections_subgraphlist' = cs[2]
             /\ anc_atoms' = {a \in UNION {Range(cs[1][k]) : k \in 1 .. Len(cs[1])} :
                                getBondedAtoms(a) \cap findMetal # {}}
    /\ pc' = "classify"
    /\ UNCHANGED <<structure, precheck, seeder, clsvars, audit, sbuvars, bdvars, return_code,
                   files, scan, calls>>
    /\ UNCHANGED funvars

\* line 612 and identify_short_linkers up to its loop (lines 428-431)
begin_short_linkers ==
    /\ pc = "classify"
    /\ initial_SBU_list' = get_closed_subgraph(removelist, linkers, FALSE)[1]
    /\ templist' = linker_list
    /\ ii' = Len(linker_list)
    /\ long_ligands' = FALSE
    /\ max_min_linker_length' = InitMaxMin
    /\ min_max_linker_length' = InitMinMax
    /\ pc' = "scan"
    /\ UNCHANGED <<structure, precheck, seeder, lcvars, audit, sbuvars, bdvars, return_code,
                   files, scan, calls>>
    /\ UNCHANGED funvars

\* the (linker atom position, SBU number, SBU atom) triples of lines 442-450
anchor_hits(atoms_list) ==
    {h \in (0 .. (Len(atoms_list) - 1)) \X (0 .. (Len(initial_SBU_list) - 1))
             \X Atoms :
        /\ h[3] \in Range(initial_SBU_list[h[2] + 1])
        /\ h[3] \in getBondedAtoms(atoms_list[h[1] + 1])}

\* an anchor test that lets a singly anchored fragment through
has_one_anchor(linkeranchors_list) == Cardinality(linkeranchors_list) >= 1

\* line 453: anchored at two places or more
has_two_anchors(linkeranchors_list) == Cardinality(linkeranchors_list) >= 2

\* a bridge test that asks for three initial SBUs
connects_three_SBUs(sbu_connect_list) == Cardinality(sbu_connect_list) >= 3

\* line 454: bonded to two initial SBUs or more
connects_two_SBUs(sbu_connect_list) == Cardinality(sbu_connect_list) >= 2

\* an image test satisfied by one side alone
either_image(pr_image_sbu, pr_image_organic) ==
    Cardinality(pr_image_sbu) = 1 \/ Cardinality(pr_image_organic) = 1

\* line 472: np.unique(pr_image_sbu) and np.unique(pr_image_organic) have one
\* row each
same_image(pr_image_sbu, pr_image_organic) ==
    Cardinality(pr_image_sbu) = 1 /\ Cardinality(pr_image_organic) = 1

\* an aggregate that keeps the smaller of the two lengths
keep_smaller(min_length, cur) == IF min_length < cur THEN min_length ELSE cur

\* lines 455, 473 and 456, 474: the running aggregates
new_max_min(min_length, cur) == IF min_length > cur THEN min_length ELSE cur
new_min_max(max_length, cur) == IF max_length < cur THEN max_length ELSE cur

\* a fold that forgets the atoms of the ligand
fold_nothing(lst, atoms) == lst

\* lines 480-481 and 492-493: the atoms of a ligand join the SBU side
fold_ligand(lst, atoms) == lst \cup atoms

\* an audit line that always reports a linker
linker_line(sbuanchors_list, sbu_connect_list, is_ligand) ==
    <<sbuanchors_list, sbu_connect_list, "set to be linker">>

\* lines 475-477 and 484-486: the line appended to ambiguous.txt
ambiguous_line(sbuanchors_list, sbu_connect_list, is_ligand) ==
    <<sbuanchors_list, sbu_connect_list,
      IF is_ligand THEN "set to be ligand" ELSE "set to be linker">>

\* one iteration of the loop of identify_short_linkers (lines 432-498)
scan_fragment ==
    /\ pc = "scan"
    /\ ii >= 1
    /\ LET atoms_list == templist[ii]
           hits == anchor_hits(atoms_list)
           linkeranchors_list == {h[1] : h \in hits}
           linkeranchors_atoms == {atoms_list[h[1] + 1] : h \in hits}
           sbuanchors_list == {h[3] : h \in hits}
           sbu_connect_list == {h[2] : h \in hits}
           ll == linker_length(linker_subgraphlist[ii], linkeranchors_list)
           min_length == ll[1]
           max_length == ll[2]
           linker_cart_coords == [k \in 1 .. Len(atoms_list) |-> pos[atoms_list[k]]]
           pr_image_organic ==
               ligand_detect(linker_cart_coords, linker_subgraphlist[ii],
                             linkeranchors_list)
           sbu_temp == AsList(linkeranchors_atoms \cup
                              Range(initial_SBU_list[Min(sbu_connect_list) + 1]))
           sbu_cart_coords == [k \in 1 .. Len(sbu_temp) |-> pos[sbu_temp[k]]]
           pr_image_sbu ==
               ligand_detect(sbu_cart_coords, slice_mat(sbu_temp),
                             0 .. (Cardinality(linkeranchors_list) - 1))
           seen == [ii |-> ii, atoms |-> Range(atoms_list),
                    anchors |-> linkeranchors_atoms,
                    sbuanchors |-> sbuanchors_list,
                    sbus |-> sbu_connect_list,
                    min_length |-> min_length, max_length |-> max_length,
                    max_min |-> max_min_linker_length,
                    min_max |-> min_max_linker_length]
           keep(kind, images) ==
               /\ max_min_linker_length' =
                      new_max_min(min_length, max_min_linker_length)
               /\ min_max_linker_length' =
                      new_min_max(max_length, min_max_linker_length)
               /\ scan' = Append(scan, [seen |-> seen, verdict |-> "linker",
                                        kind |-> kind, images |-> images])
               /\ UNCHANGED <<removelist, SBUlist, linker_list,
                              linker_subgraphlist, ligand_txt>>
           fold(kind, images) ==
               /\ removelist' = fold_ligand(removelist, Range(templist[ii]))
               /\ SBUlist' = fold_ligand(SBUlist, Range(templist[ii]))
               /\ linker_list' = Pop(linker_list, ii)
               /\ linker_subgraphlist' = Pop(linker_subgraphlist, ii)
               /\ scan' = Append(scan, [seen |-> seen, verdict |-> "ligand",
                                        kind |-> kind, images |-> images])
               /\ UNCHANGED <<max_min_linker_length, min_max_linker_length>>
       IN IF has_two_anchors(linkeranchors_list)
          THEN IF connects_two_SBUs(sbu_connect_list)
               THEN /\ keep("bridge", <<>>)
                    /\ UNCHANGED <<ambiguous_txt, log, calls>>
               ELSE /\ calls' = [calls EXCEPT !.ligand_detect = @ + 2]
                    /\ IF ~ same_image(pr_image_sbu, pr_image_organic)
                       THEN /\ keep("ambiguous", <<pr_image_sbu, pr_image_organic>>)
                            /\ ambiguous_txt' =
                                 Append(ambiguous_txt,
                                        ambiguous_line(sbuanchors_list,
                                                       sbu_connect_list, FALSE))
                            /\ UNCHANGED log
                       ELSE /\ fold("ambiguous", <<pr_image_sbu, pr_image_organic>>)
                            /\ ambiguous_txt' =
                                 Append(ambiguous_txt,
                                        ambiguous_line(sbuanchors_list,
                                                       sbu_connect_list, TRUE))
                            /\ ligand_txt' =
                                 Append(ligand_txt,
                                        <<ii - 1, sbuanchors_list, sbu_connect_list>>)
                            /\ UNCHANGED log
          ELSE /\ fold("terminal", <<>>)
               /\ log' = Append(log, <<"found ligand">>)
               /\ ligand_txt' =
                    Append(ligand_txt, <<-1, sbuanchors_list, sbu_connect_list>>)
               /\ UNCHANGED <<ambiguous_txt, calls>>
    /\ ii' = ii - 1
    /\ pc' = "scan"
    /\ UNCHANGED <<structure, precheck, allatoms, linkers, connections_list,
                   connections_subgraphlist, anc_atoms, initial_SBU_list,
                   templist, long_ligands, short_ligands_txt, uneven_txt,
                   short_txt, sbuvars, bdvars, return_code, files>>
    /\ UNCHANGED funvars

\* long only when the two aggregates are equal
long_if_even(min_max, max_min) == min_max > ShortLimit /\ max_min = min_max

\* lines 505-510: long_ligands
long_linkers(min_max, max_min) ==
    IF min_max > ShortLimit
    THEN IF max_min = min_max THEN TRUE
         ELSE IF min_max > LongLimit THEN TRUE
         ELSE FALSE
    ELSE FALSE

\* the end of identify_short_linkers (lines 500-511)
end_short_linkers ==
    /\ pc = "scan"
    /\ ii = 0
    /\ log' = Append(log, <<"lengths", min_max_linker_length, max_min_linker_length>>)
    /\ short_ligands_txt' =
          IF min_max_linker_length < LongLimit
          THEN Append(short_ligands_txt,
                      <<min_max_linker_length, max_min_linker_length>>)
          ELSE short_ligands_txt
    /\ long_ligands' = long_linkers(min_max_linker_length, max_min_linker_length)
    /\ pc' = "grow"
    /\ UNCHANGED <<structure, precheck, removelist, SBUlist, lcvars, initial_SBU_list,
                   templist, ii, max_min_linker_length, min_max_linker_length,
                   ambiguous_txt, ligand_txt, uneven_txt, short_txt, sbuvars,
                   bdvars, return_code, files, scan, calls>>
    /\ UNCHANGED funvars

\* two coordination shells instead of one
add_two_shells(lst) ==
    LET one == lst \cup UNION {getBondedAtomsSmart(z) : z \in lst}
    IN one \cup UNION {getBondedAtomsSmart(z) : z \in one}

\* the coordination shell added to SBUlist for long linkers (line 626)
add_shell(lst) == lst \cup UNION {getBondedAtomsSmart(z) : z \in lst}

\* a regime test that sends length two down the short-linker path
at_least_short(min_max) == min_max >= ShortLimit

\* line 622: the linkers are not the two-atom kind
not_extremely_short(min_max) == min_max > ShortLimit

\* a shell added whatever the linkers are
grown_anyway(lst, long) == add_shell(lst)

\* lines 623-626: SBUlist as the SBUs are cut from it
grown_SBUlist(lst, long) == IF long THEN add_shell(lst) ELSE lst

\* lines 629-632: the SBUs of short linkers after their shell growth
short_linker_SBUs(lst) == include_extra_shells(lst)

\* a single growth pass for extremely short linkers
grown_once(lst) == include_extra_shells(lst)

\* lines 640-643: the SBUs of extremely short linkers after their shell growth
extremely_short_SBUs(lst) == include_extra_shells(include_extra_shells(lst)[1])

\* lines 619-645: the regime is chosen from the aggregate lengths
grow_shells ==
    /\ pc = "grow"
    /\ uneven_txt' =
          IF Cardinality({Len(linker_list[k]) : k \in 1 .. Len(linker_list)}) # 1
          THEN Append(uneven_txt, <<"uneven">>) ELSE uneven_txt
    /\ IF not_extremely_short(min_max_linker_length)
       THEN LET grown == grown_SBUlist(SBUlist, long_ligands)
                truncated_linkers == allatoms \ grown
                cs == get_closed_subgraph(grown, truncated_linkers, FALSE)
                extra == short_linker_SBUs(cs[1])
            IN /\ SBUlist' = grown
               /\ IF long_ligands
                  THEN /\ log' = Append(log, <<"LONG LINKER">>)
                       /\ SBU_list' = cs[1]
                       /\ SBU_subgraphlist' = cs[2]
                       /\ pc' = "breakdown"
                       /\ UNCHANGED <<return_code, calls>>
                  ELSE /\ log' = Append(log, <<"SHORT LINKER">>)
                       /\ SBU_list' = extra[1]
                       /\ SBU_subgraphlist' = extra[2]
                       /\ calls' = [calls EXCEPT !.include_extra_shells = @ + 1]
                       /\ return_code' = "2"
                       /\ pc' = "done"
               /\ UNCHANGED short_txt
       ELSE LET truncated_linkers == allatoms \ removelist
                cs == get_closed_subgraph(removelist, truncated_linkers, FALSE)
                twice == extremely_short_SBUs(cs[1])
            IN /\ short_txt' = Append(short_txt, <<"extremely short linkers">>)
               /\ log' = Append(log, <<"extremely short linkers">>)
               /\ SBU_list' = twice[1]
               /\ SBU_subgraphlist' = twice[2]
               /\ calls' = [calls EXCEPT !.include_extra_shells = @ + 2]
               /\ return_code' = "3"
               /\ pc' = "done"
               /\ UNCHANGED SBUlist
    /\ UNCHANGED <<structure, precheck, removelist, lcvars, clsvars, ambiguous_txt,
                   ligand_txt, short_ligands_txt, bdvars, files, scan>>
    /\ UNCHANGED funvars

\* ------------------------------------------------------- breakdown_MOF
\* append to the list l the items of the list items that it does not hold yet
\* every atom is added, in the fragment or not
AppendAll(l, items) == l \o items

RECURSIVE AppendNew(_, _)
AppendNew(l, items) ==
    IF items = <<>> THEN l
    ELSE IF Head(items) \in Range(l)
         THEN AppendNew(l, Tail(items))
         ELSE AppendNew(Append(l, Head(items)), Tail(items))

RECURSIVE branch_for(_, _, _, _, _, _, _)
\* the for loop of branch over the list L0 that new_atoms named on entry;
\* cur is the list new_atoms names now (L0 itself until the first rebinding)
branch_for(main_ps, L0, k, cur, rebound, atoms_in_sbu, grew) ==
    IF k > Len(L0)
    THEN [new_atoms |-> cur, atoms_in_sbu |-> atoms_in_sbu, grew |-> grew, L0 |-> L0]
    ELSE LET bonded_list == getBondedAtoms(L0[k])
         IN IF (bonded_list \ main_ps) \ atoms_in_sbu # {}
            THEN LET ext == AsList(bonded_list \ main_ps)
                     L0n == IF rebound THEN L0 ELSE L0 \o ext
                     curn == AsList(Range(IF rebound THEN cur ELSE L0n) \cup Range(ext))
                 IN branch_for(main_ps, L0n, k + 1, curn, TRUE,
                               atoms_in_sbu \cup Range(curn), TRUE)
            ELSE branch_for(main_ps, L0, k + 1, cur, rebound, atoms_in_sbu, grew)

\* a climb that does not call itself again
branch_once(main_ps, atoms_in_sbu, new_atoms) ==
    LET r == branch_for(main_ps, new_atoms, 1, new_atoms, FALSE, atoms_in_sbu, FALSE)
    IN <<r.new_atoms, r.atoms_in_sbu, r.L0>>

RECURSIVE branch(_, _, _)
\* branch(molcif, main_paths, atoms_in_sbu, new_atoms): <<new_atoms,
\* atoms_in_sbu, the caller's list after the call>>
branch(main_ps, atoms_in_sbu, new_atoms) ==
    LET r == branch_for(main_ps, new_atoms, 1, new_atoms, FALSE, atoms_in_sbu, FALSE)
    IN IF ~ r.grew
       THEN <<r.new_atoms, r.atoms_in_sbu, r.L0>>
       ELSE LET b == branch(main_ps, r.atoms_in_sbu, r.new_atoms)
            IN <<b[3] \o b[1], r.atoms_in_sbu \cup b[2], r.L0>>

RECURSIVE path_unions(_, _)
path_unions(sub, pairs) ==
    IF pairs = {} THEN {{}}
    ELSE LET p == CHOOSE q \in pairs : TRUE
         IN {P \cup U : P \in shortest_paths(sub, p[1], p[2]),
                        U \in path_unions(sub, pairs \ {p})}

\* one pass over the cycles, never repeated
ring_once(paths, min_cycles) ==
    paths \cup UNION {c \in min_cycles : paths \cap c # {}}

RECURSIVE ring_closure(_, _)
\* lines 80-87: cycles overlapping the paths are taken in whole
ring_closure(paths, min_cycles) ==
    LET hit == {c \in min_cycles : paths \cap c # {} /\ ~ (c \subseteq paths)}
    IN IF hit = {} THEN paths ELSE ring_closure(paths \cup UNION hit, min_cycles)

\* identify_main_chain on a fragment of n atoms: the possible results
\* <<main, shortest, longest>>, for link_list not empty
identify_main_chain(n, sub, link_list) ==
    IF Cardinality(link_list) = 1
    THEN {<<0 .. (n - 1), 1, 1>>}
    ELSE LET pairs == {q \in link_list \X link_list : q[1] < q[2]}
             lens == {Dist(sub, {q[1]}, {q[1]}, q[2], 0) + 1 : q \in pairs}
         IN {<<ring_closure(U, cyc), Min(lens), Max(lens)>> :
                U \in path_unions(sub, pairs),
                cyc \in minimum_cycle_bases(0 .. (n - 1), sub)}

\* get_molcif_cycles_no_metal: the possible lists of metal-free cycles
get_molcif_cycles_no_metal ==
    {AsListOfLists({c \in B : \A element \in c : ~ ismetal(element)}) :
        B \in minimum_cycle_bases(Atoms, graph)}

RECURSIVE cycle_loop(_, _, _, _, _)
\* lines 193-206: every cycle through val is taken into the SBU in whole, and
\* the atoms bonded to it from outside are noted
cycle_loop(val, cycles, c, SBU_added, bonded_atoms_to_cycle) ==
    IF c > Len(cycles) THEN <<SBU_added, bonded_atoms_to_cycle>>
    ELSE LET cycle == cycles[c]
             temp_bonded_list ==
                 UNION {getBondedAtoms(cycle_val) \ Range(cycle) :
                          cycle_val \in Range(cycle)}
         IN IF val \in Range(cycle)
            THEN cycle_loop(val, cycles, c + 1, AppendNew(SBU_added, cycle),
                            Append(bonded_atoms_to_cycle, temp_bonded_list))
            ELSE cycle_loop(val, cycles, c + 1, SBU_added, bonded_atoms_to_cycle)

\* lines 183-213 for one atom val of the SBU component, SBU_added holding val
seed_step(val, SBU_added, bonded_atoms_to_cycle, main_ps, cycles) ==
    LET r == cycle_loop(val, cycles, 1, SBU_added, bonded_atoms_to_cycle)
        additional_branched_atoms == branch(main_ps, Range(r[1]), <<val>>)[1]
    IN <<AppendNew(r[1], additional_branched_atoms), r[2]>>

RECURSIVE seed_loop(_, _, _, _, _)
\* lines 180-213: the loop over the atoms of one SBU component; st is
\* <<SBU_added, bonded_atoms_to_cycle>>
seed_loop(SBU, k, st, main_ps, cycles) ==
    IF k > Len(SBU) THEN st
    ELSE IF SBU[k] \in Range(st[1])
         THEN seed_loop(SBU, k + 1,
                        seed_step(SBU[k], st[1], st[2], main_ps, cycles),
                        main_ps, cycles)
         ELSE seed_loop(SBU, k + 1,
                        seed_step(SBU[k], Append(st[1], SBU[k]), st[2], main_ps, cycles),
                        main_ps, cycles)

RECURSIVE combo_loop(_, _, _, _)
\* lines 219-229 over the pairs of itertools.combinations, coded i * n + j
combo_loop(codes, n, lists, SBU_added) ==
    IF codes = <<>> THEN SBU_added
    ELSE LET i == Head(codes) \div n
             j == Head(codes) % n
         IN combo_loop(Tail(codes), n, lists,
                       IF lists[i] = lists[j] THEN SBU_added
                       ELSE AppendNew(SBU_added, AsList(lists[i] \cap lists[j])))

\* lines 214-235: atoms bonded to two of the noted cycles join the SBU
shared_cycle_atoms(SBU_added, bonded_atoms_to_cycle, flat_subcycle_list) ==
    IF Len(bonded_atoms_to_cycle) > 1
    THEN LET n == Len(bonded_atoms_to_cycle) + 1
             new_bonded_atoms_to_cycle ==
                 [k \in 1 .. Len(bonded_atoms_to_cycle) |->
                    bonded_atoms_to_cycle[k] \ flat_subcycle_list]
             codes == AsList({q[1] * n + q[2] :
                                q \in {r \in (1 .. (n - 1)) \X (1 .. (n - 1)) :
                                         r[1] < r[2]}})
             intersection_atoms ==
                 {x \in bonded_atoms_to_cycle[1] :
                     \A k \in 1 .. Len(bonded_atoms_to_cycle) :
                         x \in bonded_atoms_to_cycle[k]}
         IN AppendNew(combo_loop(codes, n, new_bonded_atoms_to_cycle, SBU_added),
                      AsList(intersection_atoms))
    ELSE SBU_added

\* a test that takes the atoms already dealt with for the cut points
cut_point_seen(bonded_atom, SBU_added, X_checked_list, main_ps) ==
    /\ bonded_atom \in main_ps
    /\ (bonded_atom \in Range(SBU_added) \/ bonded_atom \in X_checked_list)

\* line 244: a neighbour on the main path that the SBU does not hold and that
\* has no placeholder yet
cut_point(bonded_atom, SBU_added, X_checked_list, main_ps) ==
    /\ bonded_atom \in main_ps
    /\ ~ (bonded_atom \in Range(SBU_added) \/ bonded_atom \in X_checked_list)

RECURSIVE hx_inner(_, _, _, _, _)
\* lines 238-249 for one atom of the SBU; st is <<SBU_added, X_list>> and
\* X_list holds <<replaced atom, atom it is bonded to>>
hx_inner(SBU_added_atoms, bonded_atoms, j, st, main_ps) ==
    IF j > Len(bonded_atoms) THEN st
    ELSE IF bonded_atoms[j] \notin Range(st[1]) /\ sym[bonded_atoms[j]] = "H"
         THEN hx_inner(SBU_added_atoms, bonded_atoms, j + 1,
                       <<Append(st[1], bonded_atoms[j]), st[2]>>, main_ps)
         ELSE IF cut_point(bonded_atoms[j], st[1], {x[1] : x \in Range(st[2])}, main_ps)
              THEN hx_inner(SBU_added_atoms, bonded_atoms, j + 1,
                            <<st[1], Append(st[2], <<bonded_atoms[j], SBU_added_atoms>>)>>,
                            main_ps)
              ELSE hx_inner(SBU_added_atoms, bonded_atoms, j + 1, st, main_ps)

RECURSIVE hx_loop(_, _, _)
\* lines 236-249 over SBU_added.copy(); st is <<position in the copy,
\* SBU_added, X_list>>
hx_loop(copy, st, main_ps) ==
    IF st[1] > Len(copy) THEN <<st[2], st[3]>>
    ELSE hx_loop(copy,
                 <<st[1] + 1>> \o
                 hx_inner(copy[st[1]], AsList(getBondedAtoms(copy[st[1]])), 1,
                          <<st[2], st[3]>>, main_ps),
                 main_ps)

\* a placeholder listed one place too far
index_after(added) == Len(added) + 1

\* lines 258-260 and 343-345: the local index of the placeholder just added,
\* natoms - 1 of the fragment, with added still without it
placeholder_index(added) == Len(added)

\* a record that names the replaced atom where the anchor belongs
record_of_replaced(added, X_atom) == <<placeholder_index(added), X_atom[1]>>

\* lines 259 and 344: (local index of the placeholder, the atom of the
\* fragment it was found from); X_atom is <<replaced atom, anchor>>
capping_record(added, X_atom) == <<placeholder_index(added), X_atom[2]>>

RECURSIVE cap_loop(_, _, _, _, _, _)
\* lines 251-261 and 336-346: the placeholders go to the end of the atom list
cap_loop(X_list, k, added, tuple_list, final_X_indices, atoms_that_are_X) ==
    IF k > Len(X_list)
    THEN [added |-> added, tuple_list |-> tuple_list,
          final_X_indices |-> final_X_indices,
          atoms_that_are_X |-> atoms_that_are_X]
    ELSE IF X_list[k][1] \in Range(added)
         THEN cap_loop(X_list, k + 1, added, tuple_list, final_X_indices,
                       atoms_that_are_X)
         ELSE cap_loop(X_list, k + 1, Append(added, X_list[k][1]),
                       Append(tuple_list, capping_record(added, X_list[k])),
                       Append(final_X_indices, placeholder_index(added)),
                       atoms_that_are_X \cup {X_list[k][1]})

\* lines 163-262: the atoms of the SBU fragment grown from one component
assemble_SBU(SBU, main_ps, cycles) ==
    LET seeded == seed_loop(SBU, 1, <<<<>>, <<>>>>, main_ps, cycles)
        flat_subcycle_list == UNION {Range(cycles[c]) : c \in 1 .. Len(cycles)}
        shared == shared_cycle_atoms(seeded[1], seeded[2], flat_subcycle_list)
        hx == hx_loop(shared, <<1, shared, <<>>>>, main_ps)
    IN cap_loop(hx[2], 1, hx[1], <<>>, <<>>, {})

RECURSIVE lk_sub(_, _, _, _)
\* lines 329-335: the neighbours of an SBU atom taken in as context; st is
\* <<linker_added, X_list>>
lk_sub(bonded_atom, subatoms, j, st) ==
    IF j > Len(subatoms) THEN st
    ELSE IF subatoms[j] \notin Range(st[1]) /\ subatoms[j] \in all_SBU_atoms
         THEN lk_sub(bonded_atom, subatoms, j + 1,
                     <<st[1], Append(st[2], <<subatoms[j], bonded_atom>>)>>)
         ELSE lk_sub(bonded_atom, subatoms, j + 1, st)

RECURSIVE lk_bonded(_, _, _)
\* lines 322-335 for one atom of the linker
lk_bonded(bonded_atoms, j, st) ==
    IF j > Len(bonded_atoms) THEN st
    ELSE IF bonded_atoms[j] \notin Range(st[1]) /\ bonded_atoms[j] \in all_SBU_atoms
         THEN lk_bonded(bonded_atoms, j + 1,
                        lk_sub(bonded_atoms[j], AsList(getBondedAtoms(bonded_atoms[j])),
                               1, <<Append(st[1], bonded_atoms[j]), st[2]>>))
         ELSE lk_bonded(bonded_atoms, j + 1, st)

\* a linker loop that deletes nothing
keep_every_atom(val, atoms_to_be_deleted_from_linker) == TRUE

\* line 314: an atom that no SBU fragment holds stays in the linker
kept_in_linker(val, atoms_to_be_deleted_from_linker) ==
    val \notin atoms_to_be_deleted_from_linker

RECURSIVE lk_loop(_, _)
\* lines 312-335 over the atoms of one candidate fragment; st is <<position
\* in the fragment, linker_added, X_list>>
lk_loop(linker, st) ==
    IF st[1] > Len(linker) THEN <<st[2], st[3]>>
    ELSE IF kept_in_linker(linker[st[1]], all_SBU_atoms)
         THEN lk_loop(linker,
                      <<st[1] + 1>> \o
                      lk_bonded(AsList(getBondedAtoms(linker[st[1]])), 1,
                                <<Append(st[2], linker[st[1]]), st[3]>>))
         ELSE lk_loop(linker, <<st[1] + 1, st[2], st[3]>>)

\* lines 300-346: the atoms of the linker fragment built from one candidate
assemble_linker(linker) ==
    LET r == lk_loop(linker, <<1, <<>>, <<>>>>)
    IN cap_loop(r[2], 1, r[1], <<>>, <<>>, {})

RECURSIVE xyz_walk(_, _, _)
xyz_walk(coords, sub, off) ==
    LET r == ld_walk(coords, sub, off)
        rest == (0 .. (Len(coords) - 1)) \ DOMAIN r
    IN IF rest = {} THEN r
       ELSE xyz_walk(coords, sub, r @@ (Min(rest) :> 0))

\* XYZ_connected and returnXYZandGraph: every atom is moved to the periodic
\* image that is nearest to the atom it is reached from; the result is in
\* length units times CapDen
XYZ_connected(coords, sub) ==
    LET off == xyz_walk(coords, sub, [j \in {0} |-> 0])
    IN [k \in 1 .. Len(coords) |->
          CapDen * StepLen * (coords[k] + CellLen * off[k - 1])]

RECURSIVE BCM_all(_, _, _, _)
\* mol.BCM(X, anchor, 0.75) for every capping bond: the placeholder is left
\* at 0.75 of the bond vector from its anchor
BCM_all(coords, tuple_list, k, added) ==
    IF k > Len(tuple_list) THEN coords
    ELSE LET x == tuple_list[k][1] + 1
             a == IndexOf(added, tuple_list[k][2]) + 1
         IN BCM_all([coords EXCEPT
                       ![x] = coords[a] + (CapNum * (coords[x] - coords[a])) \div CapDen],
                    tuple_list, k + 1, added)

Abs(n) == IF n < 0 THEN -n ELSE n

\* a checker that measures every pair of atoms, bonded or not
any_pair_checker(sub, coords) ==
    \E p, q \in 1 .. Len(coords) : Abs(coords[p] - coords[q]) > RodThreshold * CapDen

\* periodic_checker: some bonded pair is more than 4 length units apart
periodic_checker(sub, coords) ==
    LET dists == {Abs(coords[p[1] + 1] - coords[p[2] + 1]) :
                    p \in {q \in (0 .. (Len(coords) - 1)) \X (0 .. (Len(coords) - 1)) :
                             {q[1], q[2]} \in sub}}
        maxdist == IF dists = {} THEN 0 ELSE Max(dists)
    IN maxdist > RodThreshold * CapDen

\* mol.count_atoms(): the atoms that are not placeholders
count_atoms(labels) == Cardinality({k \in 1 .. Len(labels) : labels[k] # "X"})

\* the fragment as it is written: atoms in local order, element labels,
\* coordinates after the capping bonds were shortened, placeholder indices
fragment_of(asm) ==
    LET added == asm.added
        labels == [k \in 1 .. Len(added) |->
                     IF added[k] \in asm.atoms_that_are_X THEN "X"
                     ELSE sym[added[k]]]
        tempgraph == slice_mat(added)
        cart == [k \in 1 .. Len(added) |-> pos[added[k]]]
        connected == XYZ_connected(cart, tempgraph)
    IN [atoms |-> added, labels |-> labels, graph |-> tempgraph,
        raw |-> [k \in 1 .. Len(added) |-> CapDen * StepLen * cart[k]],
        connected |-> connected,
        coords |-> BCM_all(connected, asm.tuple_list, 1, added),
        tuple_list |-> asm.tuple_list,
        X |-> asm.final_X_indices]

RECURSIVE main_path_choices(_)
\* lines 130-158: the main paths of all candidate fragments, in molcif
\* indices, and the longest anchor-to-anchor path, for every possible
\* outcome of the path and cycle searches
main_path_choices(j) ==
    IF j > Len(connections_list) THEN {<<{}, 0>>}
    ELSE LET linker == connections_list[j]
             link_list == {jj \in 0 .. (Len(linker) - 1) : linker[jj + 1] \in anc_atoms}
         IN {<<{linker[v + 1] : v \in m[1]} \cup r[1],
               IF m[3] > r[2] THEN m[3] ELSE r[2]>> :
                m \in identify_main_chain(Len(linker), connections_subgraphlist[j],
                                          link_list),
                r \in main_path_choices(j + 1)}

\* a candidate fragment without anchoring atom: min() of an empty list raises
no_link_list ==
    \E j \in 1 .. Len(connections_list) :
        Range(connections_list[j]) \cap anc_atoms = {}

\* a main chain of one atom fewer would still pass
below_limit(longest) == longest < MainChainLimit

\* lines 159-160: no fragment has a main chain of more than two atoms
main_chain_too_short(longest) == longest <= MainChainLimit

\* breakdown_MOF up to the loop over the SBUs (lines 113-160)
breakdown_begin ==
    /\ pc = "breakdown"
    /\ calls' = [calls EXCEPT !.breakdown_MOF = @ + 1]
    /\ all_SBU_atoms' = {}
    /\ \E cycles \in get_molcif_cycles_no_metal :
          /\ subcycle_list' = cycles
          /\ IF Len(SBU_list) = 0
             THEN /\ pc' = "linkers" /\ bk' = 1
                  /\ UNCHANGED <<main_paths, current_longest, return_code>>
             ELSE IF no_link_list
             THEN /\ pc' = "done" /\ return_code' = "ValueError"
                  /\ UNCHANGED <<main_paths, current_longest, bk>>
             ELSE \E m \in main_path_choices(1) :
                     /\ main_paths' = m[1]
                     /\ current_longest' = m[2]
                     /\ IF main_chain_too_short(m[2])
                        THEN /\ pc' = "done" /\ return_code' = "2"
                             /\ UNCHANGED bk
                        ELSE /\ pc' = "sbus" /\ bk' = 1
                             /\ UNCHANGED return_code
    /\ UNCHANGED <<structure, precheck, seeder, lcvars, clsvars, audit, sbuvars, files, scan>>
    /\ UNCHANGED funvars

\* mol3D.addAtom and atom3D.setcoords: a fragment holds atoms of its own, so
\* the coordinates it is given at lines 273-276 and 364-367 are not those of
\* molcif
molcif_coords_after(frag) == pos

\* the sliced matrix put in the place of the adjacency matrix of molcif
graph_of_fragment(frag) == frag.graph

\* lines 265-267 and 348-351: np.ix_ slices a new matrix out of molcif.graph
\* and it becomes the graph of the fragment; molcif.graph stays as it was
molcif_graph_after(frag) == graph

\* lines 264-297: the assembled SBU fragment gets its coordinates, is
\* checked for a rod and written; frag.atoms is SBU_added
write_sbu(frag) ==
    LET is_periodic == periodic_checker(frag.graph, frag.coords)
        xyzname == IF is_periodic THEN "sbu1Drod" ELSE "sbu"
    IN /\ pos' = molcif_coords_after(frag)
       /\ graph' = molcif_graph_after(frag)
       /\ all_SBU_atoms' = all_SBU_atoms \cup Range(frag.atoms)
       /\ sbu_files' = Append(sbu_files,
                              [name |-> xyzname, i |-> bk - 1, frag |-> frag])
       /\ IF xyzname = "sbu1Drod"
          THEN /\ return_code' = "4" /\ pc' = "done" /\ UNCHANGED bk
          ELSE /\ UNCHANGED return_code
               /\ IF bk = Len(SBU_list)
                  THEN pc' = "linkers" /\ bk' = 1
                  ELSE pc' = "sbus" /\ bk' = bk + 1

\* one SBU: lines 161-297
breakdown_sbu ==
    /\ pc = "sbus"
    /\ bk <= Len(SBU_list)
    /\ write_sbu(fragment_of(assemble_SBU(SBU_list[bk], main_paths, subcycle_list)))
    /\ UNCHANGED <<natoms, sym, overlap, precheck, seeder, lcvars, clsvars,
                   audit, sbuvars, subcycle_list, main_paths, current_longest,
                   linker_files, scan, calls>>
    /\ UNCHANGED funvars

\* number of connected components of the atoms that are not placeholders
n_components_no_X(asm) ==
    LET no_X == Range(asm.added) \ asm.atoms_that_are_X
    IN Cardinality({Reach({a}, no_X) : a \in no_X})

\* the test without the count of connected components
skip_empty_or_small(natoms_linker, n_components, heavy_atom_count) ==
    \/ natoms_linker = 0
    \/ heavy_atom_count < MinLinkerAtoms

\* line 360: the fragments that are passed over
skip_linker(natoms_linker, n_components, heavy_atom_count) ==
    \/ natoms_linker = 0
    \/ n_components > 1
    \/ heavy_atom_count < MinLinkerAtoms

\* one candidate fragment: lines 299-377
breakdown_linker ==
    /\ pc = "linkers"
    /\ bk <= Len(connections_list)
    /\ LET asm == assemble_linker(connections_list[bk])
           frag == fragment_of(asm)
           heavy_atom_count == count_atoms(frag.labels)
       IN IF skip_linker(Len(asm.added), n_components_no_X(asm), heavy_atom_count)
          THEN UNCHANGED <<pos, graph, linker_files>>
          ELSE /\ pos' = molcif_coords_after(frag)
               /\ graph' = molcif_graph_after(frag)
               /\ linker_files' =
                     Append(linker_files,
                            [name |-> "linker", i |-> bk - 1, frag |-> frag])
    /\ bk' = bk + 1
    /\ pc' = "linkers"
    /\ UNCHANGED <<natoms, sym, overlap, precheck, seeder, lcvars, clsvars,
                   audit, sbuvars, subcycle_list, main_paths, current_longest,
                   all_SBU_atoms, sbu_files, return_code, scan, calls>>
    /\ UNCHANGED funvars

\* line 378
breakdown_return ==
    /\ pc = "linkers"
    /\ bk > Len(connections_list)
    /\ return_code' = "None"
    /\ pc' = "done"
    /\ UNCHANGED <<structure, precheck, seeder, lcvars, clsvars, audit, sbuvars, bdvars,
                   files, scan, calls>>
    /\ UNCHANGED funvars

Next ==
    \/ read_cif
    \/ check_components
    \/ prepare_initial_SBU
    \/ identify_lc_atoms
    \/ begin_short_linkers
    \/ scan_fragment
    \/ end_short_linkers
    \/ grow_shells
    \/ breakdown_begin
    \/ breakdown_sbu
    \/ breakdown_linker
    \/ breakdown_return

Spec == Init /\ [][Next]_vars

\* ------------------------------------------------- MOF_functionalizer.py
\* get_linkers: the metals and the atoms bonded to nothing but metals and
\* hydrogens are taken out; what is left falls into the linkers
functionalizer_removelist ==
    LET SBUs == findMetal \cup UNION {getBondedAtomsSmart(metal) : metal \in findMetal}
    IN findMetal \cup
       {atom \in SBUs : \A val \in getBondedAtomsSmart(atom) :
                           ismetal(val) \/ sym[val] = "H"}

get_linkers ==
    get_closed_subgraph(Atoms \ functionalizer_removelist, functionalizer_removelist,
                        FALSE)

\* the hydrogens among connected_atoms_from_adjmat(adj_matrix, a, ...)
connected_hydrogens(a) == {b \in getBondedAtoms(a) : sym[b] = "H"}

\* line 99, negated: one hydrogen among exactly three bonded atoms
suitable_location(a) ==
    /\ Cardinality(connected_hydrogens(a)) = 1
    /\ Cardinality(getBondedAtoms(a)) = 3

\* linker_identification: the first linker that holds atom a, <<>> if none
linker_identification(a) ==
    LET holding == {k \in 1 .. Len(get_linkers[1]) : a \in Range(get_linkers[1][k])}
    IN IF holding = {} THEN <<>> ELSE get_linkers[1][Min(holding)]

RECURSIVE findPaths(_, _, _, _)
\* findPaths(G, u, n): the last atoms of the paths of n bonds from u that
\* visit no atom twice, within the linker
findPaths(linker, u, n, seen) ==
    IF n = 0 THEN {u}
    ELSE UNION {findPaths(linker, v, n - 1, seen \cup {v}) :
                  v \in (getBondedAtoms(u) \cap linker) \ seen}

\* apply_functionalization up to line 485: more than two other bonded atoms
\* raise ValueError (line 483), and so does linker_to_analyze.index of the
\* first of them (line 485) when it is no atom of the linker; list(set(...))
\* may put any of them first
apply_functionalization(position_to_functionalize, atom_to_replace, linker) ==
    LET neighbors_not_to_replace ==
            getBondedAtoms(position_to_functionalize) \ {atom_to_replace}
    IN IF Cardinality(neighbors_not_to_replace) > 2 THEN {"ValueError"}
       ELSE {IF first \in linker THEN "functionalized" ELSE "ValueError" :
               first \in neighbors_not_to_replace}

\* the inputs of functionalize_MOF: a structure, the limit and the distance
InitF ==
    /\ natoms = NAtoms
    /\ graph \in SUBSET CandidateBonds(natoms)
    /\ Cardinality(graph) + Cardinality(Components(graph, natoms)) <= natoms + MaxRings
    /\ \E ms \in MetalChoices(natoms), hs \in SUBSET HydrogenCandidates(natoms) :
          /\ hs \cap ms = {}
          /\ \A h \in hs : Cardinality({e \in graph : h \in e}) = 1
          /\ sym = [a \in 0 .. (natoms - 1) |->
                      IF a \in ms THEN "M" ELSE IF a \in hs THEN "H" ELSE "C"]
    /\ pos = [a \in 0 .. (natoms - 1) |-> 0]
    /\ overlap = FALSE
    /\ FragIdle
    /\ fpc = "atoms"
    /\ functionalization_limit \in 0 .. MaxLimit
    /\ path_between_functionalizations \in 1 .. MaxPath
    /\ atom_i = 0
    /\ checkedlist = {} /\ delete_list = <<>> /\ functionalized_atoms = <<>>
    /\ functionalization_counter = 0 /\ functionalized = FALSE
    /\ linker_to_analyze = <<>>
    /\ applied = 0

\* lines 91-108: an atom that is checked already, is no carbon, or has not
\* one hydrogen among three bonded atoms
skip_atom ==
    /\ fpc = "atoms"
    /\ atom_i < natoms
    /\ \/ atom_i \in checkedlist
       \/ sym[atom_i] # "C"
       \/ ~ suitable_location(atom_i)
    /\ checkedlist' = checkedlist \cup {atom_i}
    /\ atom_i' = atom_i + 1
    /\ UNCHANGED <<structure, fragvars, fpc, functionalization_limit,
                   path_between_functionalizations, delete_list,
                   functionalized_atoms, functionalization_counter, functionalized,
                   linker_to_analyze, applied>>

\* lines 109-147 and first_functionalization: the linker of atom i is found
\* and atom i is functionalized in place of its hydrogen
first_functionalization ==
    /\ fpc = "atoms"
    /\ atom_i < natoms
    /\ atom_i \notin checkedlist
    /\ sym[atom_i] = "C"
    /\ suitable_location(atom_i)
    /\ IF linker_identification(atom_i) = <<>>
       THEN /\ fpc' = "Exception"
            /\ UNCHANGED <<checkedlist, delete_list, functionalized_atoms,
                           functionalization_counter, functionalized,
                           linker_to_analyze, applied>>
       ELSE /\ linker_to_analyze' = linker_identification(atom_i)
            /\ checkedlist' = checkedlist \cup Range(linker_identification(atom_i))
            /\ \E outcome \in apply_functionalization(
                                  atom_i, Min(connected_hydrogens(atom_i)),
                                  Range(linker_identification(atom_i))) :
                  IF outcome = "functionalized"
                  THEN /\ functionalization_counter' = functionalization_limit - 1
                       /\ functionalized' = (functionalization_limit - 1 = 0)
                       /\ delete_list' =
                             Append(delete_list, Min(connected_hydrogens(atom_i)))
                       /\ functionalized_atoms' = Append(functionalized_atoms, atom_i)
                       /\ applied' = 1
                       /\ fpc' = "while"
                  ELSE /\ functionalization_counter' = functionalization_limit
                       /\ applied' = 0
                       /\ fpc' = outcome
                       /\ UNCHANGED <<delete_list, functionalized_atoms, functionalized>>
    /\ UNCHANGED <<structure, fragvars, functionalization_limit,
                   path_between_functionalizations, atom_i>>

\* one turn of the while loop of line 151: additional_functionalization
\* takes the first path whose last atom has a hydrogen and is not yet
\* functionalized; with no such path the counter is set to 0
additional_functionalization ==
    /\ fpc = "while"
    /\ functionalization_counter > 0
    /\ LET eligible ==
               {e \in findPaths(Range(linker_to_analyze), atom_i,
                                path_between_functionalizations, {atom_i}) :
                   /\ connected_hydrogens(e) # {}
                   /\ e \notin Range(functionalized_atoms)}
       IN IF eligible = {} \/ functionalized
          THEN /\ functionalization_counter' = 0
               /\ UNCHANGED <<fpc, delete_list, functionalized_atoms, applied>>
          ELSE \E functionalization_index \in eligible :
                  \E outcome \in apply_functionalization(
                                     functionalization_index,
                                     Min(connected_hydrogens(functionalization_index)),
                                     Range(linker_to_analyze)) :
                     IF outcome = "functionalized"
                     THEN /\ functionalization_counter' = functionalization_counter - 1
                          /\ delete_list' =
                                Append(delete_list,
                                       Min(connected_hydrogens(functionalization_index)))
                          /\ functionalized_atoms' =
                                Append(functionalized_atoms, functionalization_index)
                          /\ applied' = applied + 1
                          /\ UNCHANGED fpc
                     ELSE /\ fpc' = outcome
                          /\ UNCHANGED <<functionalization_counter, delete_list,
                                         functionalized_atoms, applied>>
    /\ UNCHANGED <<structure, fragvars, functionalization_limit,
                   path_between_functionalizations, atom_i, checkedlist,
                   functionalized, linker_to_analyze>>

\* line 151 is false: the loop over the atoms goes on
next_atom ==
    /\ fpc = "while"
    /\ functionalization_counter <= 0
    /\ fpc' = "atoms"
    /\ atom_i' = atom_i + 1
    /\ UNCHANGED <<structure, fragvars, functionalization_limit,
                   path_between_functionalizations, checkedlist, delete_list,
                   functionalized_atoms, functionalization_counter, functionalized,
                   linker_to_analyze, applied>>

\* lines 173-186: the hydrogens of delete_list are left out and the cif is
\* written
write_functionalized ==
    /\ fpc = "atoms"
    /\ atom_i = natoms
    /\ fpc' = "done"
    /\ UNCHANGED <<structure, fragvars, functionalization_limit,
                   path_between_functionalizations, atom_i, checkedlist, delete_list,
                   functionalized_atoms, functionalization_counter, functionalized,
                   linker_to_analyze, applied>>

NextF ==
    \/ skip_atom
    \/ first_functionalization
    \/ additional_functionalization
    \/ next_atom
    \/ write_functionalized

SpecF == InitF /\ [][NextF]_vars

\* ----------------------------------------------------------- properties
\* the atoms directly bonded to an atom of S
BondedTo(S) == {b \in Atoms : \E a \in S : {a, b} \in graph}

\* the connected pieces of the atom set S, bonds to other atoms ignored
Pieces(S) == {Reach({a}, S) : a \in S}

\* the atom sets of a list of atom lists
AtomSets(lst) == {Range(lst[k]) : k \in 1 .. Len(lst)}

\* the atoms of the initial SBU component numbered k (from 0)
InitialSBU(k) == Range(initial_SBU_list[k + 1])

\* the atoms of fragment f bonded to an initial SBU component
AnchorsOf(f) ==
    {a \in f : \E k \in 0 .. (Len(initial_SBU_list) - 1) :
                  BondedTo({a}) \cap InitialSBU(k) # {}}

\* the initial SBU components fragment f is bonded to
TouchedSBUs(f) ==
    {k \in 0 .. (Len(initial_SBU_list) - 1) : BondedTo(f) \cap InitialSBU(k) # {}}

\* the atoms of the initial SBU components that fragment f is bonded to
SBUAnchorsOf(f) ==
    BondedTo(f) \cap UNION {InitialSBU(k) : k \in 0 .. (Len(initial_SBU_list) - 1)}

IsAmbiguous(f) ==
    Cardinality(AnchorsOf(f)) >= 2 /\ Cardinality(TouchedSBUs(f)) = 1

\* the periodic-image offsets of the organic fragment f
OrganicImages(f) ==
    LET l == AsList(f)
    IN ligand_detect([k \in 1 .. Len(l) |-> pos[l[k]]], slice_mat(l),
                     {IndexOf(l, a) : a \in AnchorsOf(f)})

\* the periodic-image offsets of the anchors of f with the SBU they touch
SBUImages(f) ==
    LET l == AsList(AnchorsOf(f) \cup InitialSBU(Min(TouchedSBUs(f))))
    IN ligand_detect([k \in 1 .. Len(l) |-> pos[l[k]]], slice_mat(l),
                     0 .. (Cardinality(AnchorsOf(f)) - 1))

SingleImage(f) ==
    Cardinality(OrganicImages(f)) = 1 /\ Cardinality(SBUImages(f)) = 1

\* the verdict on fragment f, stated without reference to any scan order
IsLinkerFragment(f) ==
    /\ Cardinality(AnchorsOf(f)) >= 2
    /\ Cardinality(TouchedSBUs(f)) >= 2 \/ ~ SingleImage(f)

\* shortest and longest anchor-to-anchor distance of fragment f
LengthsOf(f) ==
    LET l == AsList(f)
    IN linker_length(slice_mat(l), {IndexOf(l, a) : a \in AnchorsOf(f)})

\* the fragment the classifier is about to look at
Current == Range(templist[ii])
Scanning == pc = "scan" /\ ii >= 1
LastScan == scan[Len(scan)]
Scanned ==
    /\ pc \notin {"read", "start", "seed", "lc", "classify", "scan"}
    /\ return_code # "(None, None)"
NoFileWritten == sbu_files = <<>> /\ linker_files = <<>>
LigandRecords == {k \in 1 .. Len(scan) : scan[k].verdict = "ligand"}

\* C1 (as the claim states it): whenever the aggregate min_max_linker_length
\* is 2, make_MOF_fragments returns code 2 with no fragment file written.
C1_ReturnsTwo ==
    (pc = "done" /\ min_max_linker_length = 2)
        => (return_code = "2" /\ NoFileWritten)

\* C1: whenever the aggregate min_max_linker_length is 2, make_MOF_fragments
\* returns code 3 (the extremely-short branch), never 2, and no SBU or
\* linker fragment file has been written when it returns.
C1_ReturnsThree ==
    (pc = "done" /\ min_max_linker_length = 2)
        => (return_code = "3" /\ NoFileWritten)

C1_Witness ==
    pc = "done" /\ min_max_linker_length = 2 /\ return_code = "3"

\* C2: degenerate regime: with min_max_linker_length <= 2 the step cuts the
\* SBU components out of removelist, grows each by two shells
\* (include_extra_shells twice), returns 3 and ends the run without a call
\* of breakdown_MOF and without a fragment file.
C2_Degenerate ==
    [][(pc = "grow" /\ min_max_linker_length <= 2)
        => /\ AtomSets(SBU_list')
                = {c \cup BondedTo(c) \cup BondedTo(c \cup BondedTo(c)) :
                      c \in Pieces(removelist)}
           /\ Len(SBU_list') = Cardinality(Pieces(removelist))
           /\ calls'.include_extra_shells = calls.include_extra_shells + 2
           /\ return_code' = "3"
           /\ pc' = "done"
           /\ calls'.breakdown_MOF = 0
           /\ NoFileWritten']_vars

C2_Witness ==
    /\ pc = "done" /\ return_code = "3" /\ min_max_linker_length <= 2
    /\ calls.include_extra_shells = 2
    /\ \E c \in Pieces(removelist) :
          BondedTo(c \cup BondedTo(c)) \ (c \cup BondedTo(c)) # {}

\* C3: short-linker regime: with min_max_linker_length > 2, max_min #
\* min_max and min_max <= 3, the step leaves SBUlist as it is, cuts the SBU
\* components out of it, grows each by one shell (include_extra_shells
\* once), returns code 2 and ends the run without a call of breakdown_MOF
\* and without a fragment file.
C3_ShortLinker ==
    [][(/\ pc = "grow"
        /\ min_max_linker_length > 2
        /\ max_min_linker_length # min_max_linker_length
        /\ min_max_linker_length <= 3)
        => /\ SBUlist' = SBUlist
           /\ AtomSets(SBU_list') = {c \cup BondedTo(c) : c \in Pieces(SBUlist)}
           /\ Len(SBU_list') = Cardinality(Pieces(SBUlist))
           /\ calls'.include_extra_shells = calls.include_extra_shells + 1
           /\ return_code' = "2"
           /\ pc' = "done"
           /\ calls'.breakdown_MOF = 0
           /\ NoFileWritten']_vars

C3_Witness ==
    /\ pc = "done" /\ return_code = "2" /\ calls.breakdown_MOF = 0
    /\ min_max_linker_length = 3 /\ max_min_linker_length # 3
    /\ calls.include_extra_shells = 1
    /\ BondedTo(SBUlist) \ SBUlist # {}

\* C4: long-linker regime: the step goes on to breakdown_MOF exactly when
\* min_max > 2 and (max_min = min_max or min_max > 3); then SBUlist after
\* the step is SBUlist before it with every atom bonded to one of its atoms
\* (one shell, nothing further), the SBU components are the connected
\* pieces of that SBUlist (barrier allatoms - SBUlist), no shell-growth pass
\* runs, and breakdown_MOF is called with exactly these components.
C4_LongLinker ==
    [][/\ pc = "grow"
          => /\ (pc' = "breakdown")
                   <=> /\ min_max_linker_length > 2
                       /\ \/ max_min_linker_length = min_max_linker_length
                          \/ min_max_linker_length > 3
             /\ pc' = "breakdown"
                   => /\ SBUlist' = SBUlist \cup BondedTo(SBUlist)
                      /\ AtomSets(SBU_list') = Pieces(SBUlist')
                      /\ Len(SBU_list') = Cardinality(Pieces(SBUlist'))
                      /\ calls' = calls
                      /\ return_code' = "running"
       /\ pc = "breakdown"
          => /\ calls'.breakdown_MOF = calls.breakdown_MOF + 1
             /\ SBU_list' = SBU_list
       /\ calls'.breakdown_MOF # calls.breakdown_MOF => pc = "breakdown"]_vars

C4_Witness ==
    /\ pc = "sbus" /\ calls.breakdown_MOF = 1
    /\ min_max_linker_length = 3 /\ max_min_linker_length = 3
    /\ \E a \in Atoms \ SBUlist : BondedTo({a}) \cap SBUlist # {}

\* C5: a fragment with fewer than 2 anchors is a ligand: the iteration adds
\* all its atoms to removelist and to SBUlist, takes it (and its subgraph)
\* out of linker_list / linker_subgraphlist, and leaves both length
\* aggregates as they were.
C5_FewAnchorsLigand ==
    [][(Scanning /\ Cardinality(AnchorsOf(Current)) < 2)
        => /\ removelist' = removelist \cup Current
           /\ SBUlist' = SBUlist \cup Current
           /\ Current \notin AtomSets(linker_list')
           /\ Len(linker_list') = Len(linker_list) - 1
           /\ linker_subgraphlist'
                = [k \in 1 .. Len(linker_list') |-> slice_mat(linker_list'[k])]
           /\ max_min_linker_length' = max_min_linker_length
           /\ min_max_linker_length' = min_max_linker_length
           /\ LastScan'.verdict = "ligand"]_vars

C5_Witness ==
    \E k \in LigandRecords :
        /\ Cardinality(AnchorsOf(scan[k].seen.atoms)) < 2
        /\ scan[k].seen.atoms \subseteq removelist \cap SBUlist
        /\ scan[k].seen.atoms \notin AtomSets(linker_list)
        /\ Cardinality(OrganicImages(scan[k].seen.atoms)) > 1

\* C6: a fragment with at least 2 anchors that touches at least 2 initial
\* SBU components is kept as a linker: the iteration leaves linker_list,
\* linker_subgraphlist, removelist and SBUlist as they were and runs no
\* periodic-image check (ligand_detect is not called).
C6_BridgeIsLinker ==
    [][(/\ Scanning
        /\ Cardinality(AnchorsOf(Current)) >= 2
        /\ Cardinality(TouchedSBUs(Current)) >= 2)
        => /\ linker_list' = linker_list
           /\ linker_subgraphlist' = linker_subgraphlist
           /\ Current \in AtomSets(linker_list')
           /\ removelist' = removelist
           /\ SBUlist' = SBUlist
           /\ calls'.ligand_detect = calls.ligand_detect
           /\ LastScan'.verdict = "linker"]_vars

C6_Witness ==
    \E k \in 1 .. Len(scan) :
        /\ Cardinality(AnchorsOf(scan[k].seen.atoms)) >= 2
        /\ Cardinality(TouchedSBUs(scan[k].seen.atoms)) >= 2
        /\ scan[k].verdict = "linker"
        /\ scan[k].seen.atoms \in AtomSets(linker_list)
        /\ calls.ligand_detect = 0

\* C7: for a fragment with at least 2 anchors that touches exactly one
\* initial SBU component the verdict is ligand exactly when the offsets of
\* the organic fragment are one offset and the offsets of its anchors with
\* the touched SBU component are one offset; otherwise the verdict is
\* linker, the fragment stays in linker_list and both aggregates take its
\* lengths into account.
C7_AmbiguousVerdict ==
    [][(Scanning /\ IsAmbiguous(Current))
        => /\ (LastScan'.verdict = "ligand") <=> SingleImage(Current)
           /\ LastScan'.images = <<SBUImages(Current), OrganicImages(Current)>>
           /\ SingleImage(Current)
                 => /\ Current \notin AtomSets(linker_list')
                    /\ Current \subseteq removelist' \cap SBUlist'
           /\ ~ SingleImage(Current)
                 => /\ linker_list' = linker_list
                    /\ Current \in AtomSets(linker_list')
                    /\ max_min_linker_length'
                         = Max({max_min_linker_length, LengthsOf(Current)[1]})
                    /\ min_max_linker_length'
                         = Min({min_max_linker_length, LengthsOf(Current)[2]})]_vars

C7_Witness ==
    \E k \in 1 .. Len(scan) :
        /\ IsAmbiguous(scan[k].seen.atoms)
        /\ scan[k].verdict = "linker"
        /\ Cardinality(OrganicImages(scan[k].seen.atoms)) = 1
        /\ Cardinality(SBUImages(scan[k].seen.atoms)) > 1

\* C8: a fragment folded into the SBU side as a ligand is never written as
\* a linker file, none of its atoms is a kept atom of a linker file, and it
\* has its line in ligand.txt.
C8_LigandNotWritten ==
    /\ \A k \in LigandRecords :
          /\ \A j \in 1 .. Len(linker_files) :
                /\ Range(connections_list[linker_files[j].i + 1])
                      # scan[k].seen.atoms
                /\ scan[k].seen.atoms \cap Range(linker_files[j].frag.atoms) = {}
          /\ \E j \in 1 .. Len(ligand_txt) :
                /\ ligand_txt[j][2] = SBUAnchorsOf(scan[k].seen.atoms)
                /\ ligand_txt[j][3] = TouchedSBUs(scan[k].seen.atoms)
    /\ Len(ligand_txt) = Cardinality(LigandRecords)

C8_Witness ==
    /\ pc = "done" /\ return_code = "None"
    /\ \E k \in LigandRecords :
          /\ Cardinality(scan[k].seen.atoms) >= MinLinkerAtoms
          /\ \E j \in 1 .. Len(connections_list) :
                Range(connections_list[j]) = scan[k].seen.atoms

RECURSIVE AuditOf(_)
\* the audit lines owed to the iterations recorded in s
AuditOf(s) ==
    IF s = <<>> THEN <<>>
    ELSE LET r == s[Len(s)]
             f == r.seen.atoms
             rest == AuditOf(SubSeq(s, 1, Len(s) - 1))
         IN IF IsAmbiguous(f)
            THEN Append(rest,
                        <<SBUAnchorsOf(f), TouchedSBUs(f),
                          IF r.verdict = "ligand" THEN "set to be ligand"
                          ELSE "set to be linker">>)
            ELSE rest

LinkerFragments ==
    {f \in AtomSets(connections_list) : IsLinkerFragment(f)}

\* C10: during the scan max_min_linker_length never decreases and
\* min_max_linker_length never increases; after it max_min is the largest
\* min_length and min_max the smallest max_length over exactly the linker
\* fragments (0 and 100 when there is none), the fragments left in
\* linker_list are exactly those, and so both values are the same for both
\* orders in which the candidate list can arrive.
C10_Aggregates ==
    /\ [](Scanned
            => /\ AtomSets(linker_list) = LinkerFragments
               /\ max_min_linker_length
                    = Max({InitMaxMin} \cup
                          {LengthsOf(f)[1] : f \in LinkerFragments})
               /\ min_max_linker_length
                    = Min({InitMinMax} \cup
                          {LengthsOf(f)[2] : f \in LinkerFragments}))
    /\ [][pc = "scan"
            => /\ max_min_linker_length' >= max_min_linker_length
               /\ min_max_linker_length' <= min_max_linker_length]_vars

C10_Witness ==
    /\ Scanned
    /\ Cardinality(LinkerFragments) >= 2
    /\ min_max_linker_length < max_min_linker_length
    /\ connections_list[1][1] > connections_list[Len(connections_list)][1]

\* the atom sets of the fragments dropped as ligands
LigandSets == {scan[k].seen.atoms : k \in LigandRecords}

\* the sets of the family F are pairwise disjoint
Disjoint(F) == \A a \in F, b \in F : a = b \/ a \cap b = {}

\* C11 (as the claim states it): when identify_short_linkers has returned,
\* SBUlist, the remaining linker fragments and the dropped ligands are
\* pairwise disjoint and together hold every atom.
C11_SBUsetPartition ==
    pc = "grow"
        => /\ Disjoint({SBUlist} \cup AtomSets(linker_list) \cup LigandSets)
           /\ SBUlist \notin AtomSets(linker_list) \cup LigandSets
           /\ SBUlist \cup UNION AtomSets(linker_list) \cup UNION LigandSets
                 = Atoms

\* C11: when identify_short_linkers has returned, removelist and the
\* remaining linker fragments are pairwise disjoint and together hold every
\* atom; every dropped ligand lies inside removelist and inside SBUlist, and
\* the dropped ligands are pairwise disjoint.  (SBUlist itself shares the
\* anchoring atoms with the linker fragments.)
C11_RemovelistPartition ==
    Scanned
        => /\ Disjoint({removelist} \cup AtomSets(linker_list))
           /\ Len(linker_list) = Cardinality(AtomSets(linker_list))
           /\ removelist \cup UNION AtomSets(linker_list) = Atoms
           /\ \A l \in LigandSets : l \subseteq removelist \cap SBUlist
           /\ Disjoint(LigandSets)

C11_Witness ==
    /\ pc = "grow"
    /\ Len(linker_list) >= 1
    /\ LigandSets # {}
    /\ \E k \in 1 .. Len(linker_list) : Range(linker_list[k]) \cap SBUlist # {}
    /\ removelist \ SBUlist # {}

\* the fragment files written so far
WrittenFiles == Range(sbu_files) \cup Range(linker_files)

\* the atoms of a written fragment that are no placeholders
RealAtoms(frag) ==
    {frag.atoms[k] : k \in {j \in 1 .. Len(frag.atoms) : frag.labels[j] # "X"}}

\* the atoms a written fragment holds only as placeholders
PlaceholderAtoms(frag) ==
    {frag.atoms[k] : k \in {j \in 1 .. Len(frag.atoms) : frag.labels[j] = "X"}}

\* the rings get_molcif_cycles_no_metal returned
Rings == AtomSets(subcycle_list)

\* C12: for every fragment written by breakdown_MOF and every ring of
\* subcycle_list, the fragment holds all atoms of the ring or none of them.
\* A placeholder at a ring atom's place counts here as holding that atom, so
\* that the statement fails only where a fragment holds a ring atom as an
\* atom of its own and lacks another atom of that ring altogether.
C12_RingIntegrity ==
    \A f \in WrittenFiles : \A ring \in Rings :
        \/ ring \subseteq Range(f.frag.atoms)
        \/ ring \cap RealAtoms(f.frag) = {}

\* the atoms whose every bonded neighbour is a metal or a hydrogen
OnlyMetalOrHydrogen ==
    {a \in Atoms : \A v \in getBondedAtoms(a) : ismetal(v) \/ sym[v] = "H"}

\* the metals with the atoms bonded to nothing but metals and hydrogens
SeederCore == findMetal \cup OnlyMetalOrHydrogen

\* the hydrogens bonded to an atom of S
HydrogensOn(S) == {h \in BondedTo(S) : sym[h] = "H"}

\* C13: when prepare_initial_SBU returns, removelist is the metals, the atoms
\* whose every bonded neighbour is a metal or a hydrogen, and the hydrogens
\* bonded to one of those atoms; it holds no other atom.
C13_RemovelistOfSeeder ==
    pc = "lc" => removelist = SeederCore \cup HydrogensOn(SeederCore)

\* C14: when prepare_initial_SBU returns, SBUlist is removelist together with
\* every atom directly bonded to a metal; so removelist lies within SBUlist.
C14_SBUsetOfSeeder ==
    pc = "lc" => SBUlist = removelist \cup BondedTo(findMetal)

\* the linker fragments breakdown_MOF assembles, written or not
AssembledLinkers ==
    IF pc = "linkers" \/ (pc = "done" /\ return_code = "None")
    THEN {fragment_of(assemble_linker(connections_list[k])) :
            k \in 1 .. Len(connections_list)}
    ELSE {}

\* the fragments assembled so far
AssembledFragments == {f.frag : f \in WrittenFiles} \cup AssembledLinkers

\* the local indices of the atoms of a fragment that carry the symbol X
SymbolX(frag) == {k - 1 : k \in {j \in 1 .. Len(frag.atoms) : frag.labels[j] = "X"}}

\* C15: in every assembled SBU and linker fragment the listed placeholder
\* indices are exactly the atoms with symbol X, and each of them is greater
\* than the local index of every atom that is no placeholder.
C15_PlaceholdersLast ==
    \A frag \in AssembledFragments :
        /\ Range(frag.X) = SymbolX(frag)
        /\ \A x \in Range(frag.X) :
              \A k \in (0 .. (Len(frag.atoms) - 1)) \ SymbolX(frag) : x > k

C15_Witness ==
    /\ \E f \in Range(sbu_files) : Len(f.frag.X) >= 2
    /\ \E f \in Range(linker_files) :
          Len(f.frag.X) >= 2 /\ Len(f.frag.atoms) > Len(f.frag.X) + 1

\* some bonded pair of atoms of the fragment is more than RodThreshold length
\* units apart, in the coordinates the fragment is written with
FarBondedPair(frag) ==
    \E e \in frag.graph : \E p, q \in e :
        frag.coords[p + 1] - frag.coords[q + 1] > RodThreshold * CapDen

Last(s) == s[Len(s)]

\* C16: an SBU fragment is written as a 1D rod exactly when some bonded pair
\* of its atoms is more than 4 length units apart; once a rod is written
\* breakdown_MOF has returned 4, the rod is the last SBU file and there is no
\* linker file; and 4 is returned only with a rod as the SBU file just written.
C16_RodEndsBreakdown ==
    /\ \A f \in Range(sbu_files) : (f.name = "sbu1Drod") <=> FarBondedPair(f.frag)
    /\ \A k \in 1 .. Len(sbu_files) :
          sbu_files[k].name = "sbu1Drod" =>
              /\ return_code = "4" /\ pc = "done"
              /\ k = Len(sbu_files)
              /\ linker_files = <<>>
    /\ return_code = "4" => sbu_files # <<>> /\ Last(sbu_files).name = "sbu1Drod"

C16_Witness ==
    /\ return_code = "4"
    /\ Len(sbu_files) >= 2
    /\ ~ FarBondedPair(sbu_files[1].frag)
    /\ Len(connections_list) >= 1

\* the atoms on a shortest path between the two anchoring atoms of a candidate
\* fragment that lie furthest apart; a fragment with one anchoring atom has
\* the path that consists of that atom
AnchorPathAtoms(frag) ==
    LET anchors == Range(frag) \cap anc_atoms
        within == {e \in graph : e \subseteq Range(frag)}
        pairs == {q \in anchors \X anchors : q[1] < q[2]}
    IN IF Cardinality(anchors) = 1 THEN 1
       ELSE Max({0} \cup {Dist(within, {q[1]}, {q[1]}, q[2], 0) + 1 : q \in pairs})

LongestAnchorPath ==
    Max({0} \cup {AnchorPathAtoms(connections_list[j]) :
                     j \in 1 .. Len(connections_list)})

\* C17: when the longest anchor-to-anchor path over all fragments of
\* connections_list has at most two atoms, breakdown_MOF returns 2, and it
\* has written no SBU file and no linker file and assembled no fragment
C17_ShortMainChainReturns2 ==
    (calls.breakdown_MOF = 1 /\ LongestAnchorPath <= MainChainLimit)
        => /\ return_code = "2"
           /\ pc = "done"
           /\ sbu_files = <<>>
           /\ linker_files = <<>>
           /\ all_SBU_atoms = {}

C17_Witness ==
    /\ calls.breakdown_MOF = 1
    /\ connections_list # <<>>
    /\ LongestAnchorPath = MainChainLimit
    /\ return_code = "2"

\* the candidate fragments the loop of lines 299-377 has gone through
ProcessedLinkers ==
    IF pc = "linkers" THEN bk - 1
    ELSE IF pc = "done" /\ return_code = "None" THEN Len(connections_list)
    ELSE 0

\* positions in the fragment of the atoms that are no placeholders
RealPositions(frag) == {k - 1 : k \in {j \in 1 .. Len(frag.atoms) : frag.labels[j] # "X"}}

\* the connected pieces of the fragment once its placeholders are left out
RealPieces(frag) ==
    LET real == RealPositions(frag)
        sub == {e \in frag.graph : e \subseteq real}
    IN {{b \in real : Dist(sub, {a}, {a}, b, 0) < NoPathMin} : a \in real}

Dropped(frag) ==
    \/ Len(frag.atoms) = 0
    \/ Cardinality(RealPieces(frag)) > 1
    \/ Cardinality(RealPositions(frag)) < 3

LinkerFragment(j) == fragment_of(assemble_linker(connections_list[j]))

\* C18: a linker fragment is left unwritten exactly when it has no atom, or
\* its atoms that are no placeholders fall into more than one connected
\* piece, or it has fewer than three atoms that are no placeholders; every
\* other linker fragment is written, and nothing else is
C18_LinkerWrittenUnlessDropped ==
    /\ \A j \in 1 .. ProcessedLinkers :
          (\E f \in Range(linker_files) : f.i = j - 1 /\ f.frag = LinkerFragment(j))
              <=> ~ Dropped(LinkerFragment(j))
    /\ \A f \in Range(linker_files) : f.i + 1 \in 1 .. ProcessedLinkers

C18_Witness ==
    /\ pc = "done"
    /\ return_code = "None"
    /\ \E j \in 1 .. Len(connections_list) :
          /\ Cardinality(RealPieces(LinkerFragment(j))) > 1
          /\ Cardinality(RealPositions(LinkerFragment(j))) >= 3

\* the structural preconditions of make_MOF_fragments
TooLarge == natoms > 2000
NoMetal == \A a \in Atoms : sym[a] # "M"
MetalFreeComponent ==
    \E a \in Atoms : \A b \in Atoms :
        Dist(graph, {a}, {a}, b, 0) < NoPathMin => sym[b] # "M"
PreconditionFailure == TooLarge \/ overlap \/ NoMetal \/ MetalFreeComponent

NoLaterStage ==
    /\ removelist = {} /\ SBUlist = {} /\ log = <<>>
    /\ allatoms = {} /\ linkers = {} /\ anc_atoms = {}
    /\ connections_list = <<>> /\ linker_list = <<>>
    /\ initial_SBU_list = <<>> /\ SBU_list = <<>>
    /\ scan = <<>>
    /\ calls.ligand_detect = 0 /\ calls.include_extra_shells = 0
    /\ calls.breakdown_MOF = 0

NoAuditRecord ==
    /\ ambiguous_txt = <<>> /\ ligand_txt = <<>> /\ short_ligands_txt = <<>>
    /\ uneven_txt = <<>> /\ short_txt = <<>>

\* C19: on a structure that is too large, has overlapping atoms, has no
\* metal, or has a connected component without metal, make_MOF_fragments
\* never reaches the seeder or any later stage; it ends with one record in
\* the failure log and the result (None, None), and it writes no fragment
\* file and no classifier audit record.  Any other structure leaves the
\* failure log empty.
C19_PreconditionFailure ==
    /\ PreconditionFailure
          => /\ pc \in {"read", "start", "done"}
             /\ NoLaterStage
             /\ NoAuditRecord
             /\ sbu_files = <<>> /\ linker_files = <<>>
             /\ Len(failed_log) = (IF pc = "done" THEN 1 ELSE 0)
             /\ return_code = (IF pc = "done" THEN "(None, None)" ELSE "running")
    /\ ~ PreconditionFailure => failed_log = <<>> /\ return_code # "(None, None)"

C19_Witness ==
    /\ pc = "done"
    /\ xyz_written
    /\ ~ NoMetal
    /\ MetalFreeComponent
    /\ failed_log = <<"solvent molecules">>

InBreakdown == pc \in {"breakdown", "sbus", "linkers"}

\* the coordinates a written fragment started from, before they were
\* regenerated and its capping bonds shortened
FromMolcif(frag) ==
    \A k \in 1 .. Len(frag.atoms) : frag.raw[k] = CapDen * StepLen * pos[frag.atoms[k]]

Occurrences(frag, b) == Cardinality({j \in 1 .. Len(frag.atoms) : frag.atoms[j] = b})

\* C21: in a written SBU fragment every atom on the main path that is bonded
\* to an atom of the fragment that is no placeholder stands in the fragment
\* once, as an atom or as a placeholder; every placeholder has one capping
\* record, and the anchor of the record is an atom of the fragment that is no
\* placeholder and is bonded to the replaced atom
C21_CutPointsCapped ==
    \A f \in Range(sbu_files) :
        /\ \A a \in RealAtoms(f.frag) :
              \A b \in getBondedAtoms(a) \cap main_paths : Occurrences(f.frag, b) = 1
        /\ \A x \in PlaceholderAtoms(f.frag) :
              Cardinality({k \in 1 .. Len(f.frag.tuple_list) :
                             f.frag.atoms[f.frag.tuple_list[k][1] + 1] = x}) = 1
        /\ \A k \in 1 .. Len(f.frag.tuple_list) :
              /\ f.frag.labels[f.frag.tuple_list[k][1] + 1] = "X"
              /\ f.frag.tuple_list[k][2] \in RealAtoms(f.frag)
              /\ {f.frag.tuple_list[k][2], f.frag.atoms[f.frag.tuple_list[k][1] + 1]}
                    \in graph

\* an SBU with two placeholders and with a main path atom taken in whole
C21_Witness ==
    \E f \in Range(sbu_files) :
        /\ Cardinality(PlaceholderAtoms(f.frag)) >= 2
        /\ RealAtoms(f.frag) \cap main_paths # {}

\* the seed atoms of the SBU component a written SBU fragment grew from
SeedAtoms(f) == Range(SBU_list[f.i + 1])

OutsideNeighbours(ring) ==
    {b \in Atoms \ ring : \E a \in ring : {a, b} \in graph}

\* C22: a written SBU fragment holds, for every ring without metal that one
\* of its seed atoms lies on, every atom of the ring and every atom bonded to
\* the ring from outside that is not on the main path
C22_RingAndNeighbours ==
    \A f \in Range(sbu_files) : \A ring \in Rings :
        SeedAtoms(f) \cap ring # {}
            => /\ ring \subseteq Range(f.frag.atoms)
               /\ OutsideNeighbours(ring) \ main_paths \subseteq Range(f.frag.atoms)

\* the calls of branch at line 208 while the SBU fragments are assembled:
\* <<seed atom, SBU_added at the call>>, for every seed atom of every SBU
SeedCalls ==
    IF pc \notin {"sbus", "linkers"} THEN {}
    ELSE UNION {{<<SBU_list[c][k],
                   Range(cycle_loop(SBU_list[c][k], subcycle_list, 1,
                                    AppendNew(seed_loop(SubSeq(SBU_list[c], 1, k - 1), 1,
                                                        <<<<>>, <<>>>>, main_paths,
                                                        subcycle_list)[1],
                                              <<SBU_list[c][k]>>),
                                    <<>>)[1])>> :
                    k \in 1 .. Len(SBU_list[c])} : c \in 1 .. Len(SBU_list)}

\* those calls, and a call from every atom of the structure with nothing or
\* the metals included so far
BranchCalls ==
    IF pc \notin {"sbus", "linkers"} THEN {}
    ELSE SeedCalls \cup {<<p[1], {p[1]} \cup p[2]>> : p \in Atoms \X {{}, findMetal}}

BranchFixedPoint(val, atoms_in_sbu, b) ==
    /\ \A a \in Range(b[1]) : \A v \in getBondedAtoms(a) : v \in main_paths \/ v \in b[2]
    /\ \A a \in Range(b[1]) : a \in main_paths => a = val
    /\ atoms_in_sbu \subseteq b[2]

\* C23: branch returns, and what it returns is a fixed point: every atom
\* bonded to a returned branch atom is on the main path or in the returned
\* atoms_in_sbu, and no returned branch atom but the seed atom passed in is
\* on the main path
C23_BranchFixedPoint ==
    \A call \in BranchCalls :
        BranchFixedPoint(call[1], call[2], branch(main_paths, call[2], <<call[1]>>))

\* a climb of more than one round from a seed atom of an SBU
C23_Witness ==
    \E call \in SeedCalls :
        /\ Len(branch(main_paths, call[2], <<call[1]>>)[1]) >= 4
        /\ branch_once(main_paths, call[2], <<call[1]>>)
              # branch(main_paths, call[2], <<call[1]>>)

\* (i) the atoms of the candidate fragment that no SBU fragment holds
OwnAtoms(linker) == Range(linker) \ all_SBU_atoms

\* (ii) the atoms of the SBU fragments bonded to an atom of (i)
ContextAtoms(linker) ==
    {b \in all_SBU_atoms : \E a \in OwnAtoms(linker) : {a, b} \in graph}

\* the atoms of the SBU fragments bonded to an atom of (ii), outside (i) and (ii)
BeyondContext(linker) ==
    {s \in all_SBU_atoms : \E b \in ContextAtoms(linker) : {s, b} \in graph}
        \ (OwnAtoms(linker) \cup ContextAtoms(linker))

\* C24: the atoms of a linker fragment that are no placeholders are the atoms
\* of its candidate fragment that no SBU fragment holds together with the SBU
\* atoms bonded to them; its placeholders are the SBU atoms bonded to the
\* latter and outside both; no atom of an SBU fragment is among the former
C24_LinkerComposition ==
    \A f \in Range(linker_files) :
        /\ RealAtoms(f.frag) =
              OwnAtoms(connections_list[f.i + 1]) \cup ContextAtoms(connections_list[f.i + 1])
        /\ PlaceholderAtoms(f.frag) = BeyondContext(connections_list[f.i + 1])
        /\ OwnAtoms(connections_list[f.i + 1]) \cap all_SBU_atoms = {}

\* a linker file with atoms of its own, context atoms and placeholders, cut
\* from a candidate fragment of which the SBU fragments hold some atoms
C24_Witness ==
    \E f \in Range(linker_files) :
        /\ OwnAtoms(connections_list[f.i + 1]) # {}
        /\ ContextAtoms(connections_list[f.i + 1]) # {}
        /\ PlaceholderAtoms(f.frag) # {}
        /\ Range(connections_list[f.i + 1]) \cap all_SBU_atoms # {}

\* the lattice steps between two coordinates over the nearest periodic image
ImageDistance(p, q) ==
    LET d == Abs(p - q) IN IF 2 * d > CellLen THEN CellLen - d ELSE d

\* the files written so far, SBU and linker fragments alike
WrittenFragments == {f.frag : f \in Range(sbu_files) \cup Range(linker_files)}

\* one capping record t = <<local index of the placeholder, anchor atom>> of
\* a fragment: before the correction the placeholder is where the replaced
\* atom is, at the bond length from its anchor; after it, at 0.75 of that
CappedOnce(frag, t) ==
    LET x == t[1] + 1
        a == IndexOf(frag.atoms, t[2]) + 1
    IN /\ frag.labels[x] = "X" /\ frag.labels[a] # "X"
       /\ {frag.atoms[x], t[2]} \in graph
       /\ frag.raw[x] = CapDen * StepLen * pos[frag.atoms[x]]
       /\ Abs(frag.connected[x] - frag.connected[a])
             = CapDen * StepLen * ImageDistance(pos[frag.atoms[x]], pos[t[2]])
       /\ CapDen * (frag.coords[x] - frag.coords[a])
             = CapNum * (frag.connected[x] - frag.connected[a])
       /\ frag.coords[a] = frag.connected[a]

\* C25: in every written SBU and linker fragment each placeholder has one
\* capping record; it is put where the atom it replaces is, and after the
\* correction, made once, it lies at 0.75 of the bond vector from its anchor
C25_CappingSymmetry ==
    \A frag \in WrittenFragments :
        /\ \A k \in 1 .. Len(frag.tuple_list) : CappedOnce(frag, frag.tuple_list[k])
        /\ \A k, l \in 1 .. Len(frag.tuple_list) :
               frag.tuple_list[k][1] = frag.tuple_list[l][1] => k = l
        /\ {frag.tuple_list[k][1] : k \in 1 .. Len(frag.tuple_list)}
              = {j - 1 : j \in {i \in 1 .. Len(frag.atoms) : frag.labels[i] = "X"}}

\* an SBU file and a linker file with a placeholder each, one of them with
\* two placeholders on one anchor or more
C25_Witness ==
    /\ \E f \in Range(sbu_files) : f.frag.tuple_list # <<>>
    /\ \E f \in Range(linker_files) : Len(f.frag.tuple_list) >= 2

\* the positions in the candidate list (1-based) of the fragments the
\* classifier took for a ligand, and of those it kept
LigandPositions == {scan[k].seen.ii : k \in LigandRecords}

KeptPositions == (1 .. Len(templist)) \ LigandPositions

\* the candidate list without the fragments taken for ligands, in its order
KeptCandidates ==
    [k \in 1 .. Cardinality(KeptPositions) |-> templist[AsList(KeptPositions)[k]]]

\* C26: after identify_short_linkers linker_list and linker_subgraphlist are
\* of one length, the i-th subgraph is the induced subgraph of the i-th
\* fragment, linker_list is the candidate list without the fragments taken
\* for ligands, in the same order, and the atoms folded into removelist and
\* SBUlist are those of the fragments that were classified as ligands
C26_ListsAligned ==
    Scanned =>
        /\ Len(linker_list) = Len(linker_subgraphlist)
        /\ \A i \in 1 .. Len(linker_list) :
               linker_subgraphlist[i] = slice_mat(linker_list[i])
        /\ linker_list = KeptCandidates
        /\ \A k \in LigandRecords :
               /\ scan[k].seen.atoms = Range(templist[scan[k].seen.ii])
               /\ scan[k].seen.atoms \subseteq removelist
               /\ scan[k].seen.atoms \subseteq SBUlist
        /\ \A i \in KeptPositions :
               \A a \in Range(templist[i]) :
                   a \in removelist =>
                       \E j \in LigandPositions : a \in Range(templist[j])

\* a ligand was taken out from before a fragment that stays
C26_Witness ==
    /\ Scanned
    /\ \E j, l \in 1 .. Len(templist) :
          /\ j < l
          /\ j \in LigandPositions
          /\ l \in KeptPositions

\* the local-to-global mapping of a fragment: local index k (0-based) is
\* sent to the k-th atom added
LocalToGlobal(frag) == [k \in 0 .. (Len(frag.atoms) - 1) |-> frag.atoms[k + 1]]

Injective(f) == \A k, l \in DOMAIN f : f[k] = f[l] => k = l

\* C27: in every fragment the atom table, the list of added atoms and the
\* mapping have one length, no atom of the structure is added twice, so that
\* the anchor of every capping record has one local index, and the rows of
\* the induced graph follow the local order
C27_MappingConsistent ==
    \A frag \in WrittenFragments :
        /\ Len(frag.labels) = Len(frag.atoms)
        /\ Len(frag.coords) = Len(frag.atoms)
        /\ Injective(LocalToGlobal(frag))
        /\ \A k \in DOMAIN LocalToGlobal(frag) :
               frag.labels[k + 1] \in {"X", sym[LocalToGlobal(frag)[k]]}
        /\ frag.graph =
              {{k, l} : k, l \in DOMAIN LocalToGlobal(frag)} \cap
              {e \in SUBSET DOMAIN LocalToGlobal(frag) :
                  /\ Cardinality(e) = 2
                  /\ {LocalToGlobal(frag)[k] : k \in e} \in graph}
        /\ \A r \in 1 .. Len(frag.tuple_list) :
               /\ frag.tuple_list[r][1] \in DOMAIN LocalToGlobal(frag)
               /\ Cardinality({k \in DOMAIN LocalToGlobal(frag) :
                                  LocalToGlobal(frag)[k] = frag.tuple_list[r][2]}) = 1

\* a capped fragment whose replaced atom is met from two atoms of the
\* fragment and is added once
C27_Witness ==
    \E frag \in WrittenFragments :
        /\ frag.tuple_list # <<>>
        /\ \E x \in PlaceholderAtoms(frag) :
              Cardinality(getBondedAtoms(x) \cap RealAtoms(frag)) >= 2

\* the local indices of the anchoring atoms of candidate fragment j, as
\* lines 137-141 collect them
LinkList(j) ==
    {jj \in 0 .. (Len(connections_list[j]) - 1) :
        connections_list[j][jj + 1] \in anc_atoms}

\* the main chains identify_main_chain can return for candidate fragment j
MainChains(j) ==
    identify_main_chain(Len(connections_list[j]), connections_subgraphlist[j],
                        LinkList(j))

AnchorPairs(j) == {q \in LinkList(j) \X LinkList(j) : q[1] < q[2]}

\* main holds a shortest path between each two anchors and every cycle of a
\* minimum cycle basis that shares an atom with it
ClosedMainChain(j, main) ==
    /\ \A q \in AnchorPairs(j) :
          \E P \in shortest_paths(connections_subgraphlist[j], q[1], q[2]) :
              P \subseteq main
    /\ \E cyc \in minimum_cycle_bases(0 .. (Len(connections_list[j]) - 1),
                                       connections_subgraphlist[j]) :
          \A c \in cyc : c \cap main # {} => c \subseteq main

\* C28: for a fragment with two anchors or more identify_main_chain returns
\* a main chain that holds a shortest path between each two anchors and is
\* closed under ring overlap; for a fragment with one anchor it returns all
\* atoms of the fragment with shortest = longest = 1
C28_MainChain ==
    pc = "breakdown" =>
        \A j \in 1 .. Len(connections_list) :
            /\ Cardinality(LinkList(j)) >= 2 =>
                  /\ MainChains(j) # {}
                  /\ \A m \in MainChains(j) : ClosedMainChain(j, m[1])
            /\ Cardinality(LinkList(j)) = 1 =>
                  MainChains(j) = {<<0 .. (Len(connections_list[j]) - 1), 1, 1>>}

\* a fragment whose anchor paths meet a ring that meets a second ring off
\* the paths: the main chain takes in both
C28_Witness ==
    /\ pc = "breakdown"
    /\ \E j \in 1 .. Len(connections_list) :
          /\ Cardinality(LinkList(j)) >= 2
          /\ \E U \in path_unions(connections_subgraphlist[j], AnchorPairs(j)) :
                \E cyc \in minimum_cycle_bases(0 .. (Len(connections_list[j]) - 1),
                                                connections_subgraphlist[j]) :
                    /\ ring_once(U, cyc) # ring_closure(U, cyc)
                    /\ \E m \in MainChains(j) : m[1] = ring_closure(U, cyc)

\* the classifier has returned and kept no candidate fragment as a linker
NoLinkerKept == Scanned /\ linker_list = <<>>

\* make_MOF_fragments went past lines 622-645 without the return of line 635
\* or of line 645
LongRegimeTaken ==
    /\ <<"LONG LINKER">> \in Range(log)
    /\ <<"SHORT LINKER">> \notin Range(log)
    /\ short_txt = <<>>
    /\ calls.include_extra_shells = 0

NoRepeat(lst) == \A k, l \in 1 .. Len(lst) : lst[k] = lst[l] => k = l

====
